---- MODULE Spec2Model ----
(***************************************************************************)
(* Helpdesk tickets, asset inventory and audit log of the WorkPlatform     *)
(* backend (src/backend/api.py, logic.py, models.py, schemas.py): ticket   *)
(* lifecycle, SLA clock and ticket journal; asset tags, QR codes and asset *)
(* journal; module access, user administration and the audit rows they     *)
(* write.                                                                  *)
(*                                                                         *)
(* The state is the committed content of the relational store (users,      *)
(* tickets, ticket_events, assets, asset_events, role_module_access,       *)
(* audit_logs) and the wall clock.  Every request handler is one action,   *)
(* with a *_result operator giving the response code and the store after   *)
(* the request: the handler builds its in-memory session as the code does, *)
(* and the store takes the session's content only if the handler reached   *)
(* db.commit().  Requests are served one at a time, except create_asset,   *)
(* which is also modelled in two steps (scan and flush, then commit) with  *)
(* several requests in flight.                                             *)
(*                                                                         *)
(* Columns no claim reads (title, description, category, updated_at,       *)
(* e-mail addresses, the name of an asset) are left out of the records.    *)
(***************************************************************************)
EXTENDS Integers, Sequences, FiniteSets, TLC

VARIABLES users, tickets, ticket_events, ticket_ids_issued, now,
          assets, asset_events, asset_requests,
          role_module_access, audit_logs, audit_payload, maintenance_records,
          audit_archive, cleanup_request, audit_listing

vars == <<users, tickets, ticket_events, ticket_ids_issued, now,
          assets, asset_events, asset_requests,
          role_module_access, audit_logs, audit_payload, maintenance_records,
          audit_archive, cleanup_request, audit_listing>>

\* The tables of the asset inventory with the create_asset requests in
\* flight, and the tables of administration with the payload of the audit
\* call under way.
asset_store == <<assets, asset_events, asset_requests>>
audit_store == <<role_module_access, audit_logs, audit_payload>>
admin_requests == <<audit_archive, cleanup_request, audit_listing>>

(***************************************************************************)
(* Bounds of the model.                                                    *)
(***************************************************************************)
MaxEvents == 3

(***************************************************************************)
(* Values.                                                                 *)
(***************************************************************************)
\* Python None / SQL NULL of a string column or payload field.
None == "None"
\* SQL NULL of a nullable DateTime column.
NullTime == -1
\* The clock counts minutes: timedelta(hours=1), timedelta(days=1).
Hour == 60
Day == 24 * Hour
\* The instants at which the clock is read by a request: T0, and around the
\* deadlines of a critical ticket filed at T0 (T0+2h, T0+3h1m, T0+4h, T0+4h1m).
ClockInstants == {0, 2 * Hour, 3 * Hour + 1, 4 * Hour, 4 * Hour + 1}

UserIds == {"u1", "u2", "u3"}
\* Ticket.id is a uuid4: two ids are all a run needs, and the runs that follow
\* one ticket through its life use the first.
TicketIds == {"t1", "t2"}
FirstTicketId == {"t1"}
\* Row absent from its table.
Absent == "absent"
NoTicket == [absent |-> TRUE]

\* Asset.id is a uuid4, like Ticket.id.
AssetIds == {"a1", "a2"}
NoAsset == [absent |-> TRUE]
\* The create_asset requests that can be in flight at once.
RequestIds == {"r1", "r2"}
NoRequest == [absent |-> TRUE]

UserRole == {"admin", "developer", "user"}

TICKET_STATUS_VALUES ==
    {"new", "triaged", "in_progress", "waiting_user", "blocked", "resolved", "closed", "reopened"}
TICKET_ACTIVE_STATUSES ==
    {"new", "triaged", "in_progress", "waiting_user", "blocked", "reopened"}
TICKET_RESOLUTION_STATUSES == {"resolved", "closed"}

TICKET_TRANSITIONS ==
    [s \in TICKET_STATUS_VALUES |->
        CASE s = "new" -> {"triaged", "in_progress", "blocked", "resolved"}
          [] s = "triaged" -> {"in_progress", "waiting_user", "blocked", "resolved"}
          [] s = "in_progress" -> {"waiting_user", "blocked", "resolved"}
          [] s = "waiting_user" -> {"in_progress", "blocked", "resolved"}
          [] s = "blocked" -> {"triaged", "in_progress", "waiting_user", "resolved"}
          [] s = "resolved" -> {"closed", "reopened"}
          [] s = "closed" -> {"reopened"}
          [] s = "reopened" -> {"triaged", "in_progress", "waiting_user", "blocked", "resolved"}]

TICKET_PRIORITY_VALUES == {"low", "medium", "high", "critical"}

TICKET_FIRST_RESPONSE_SLA_HOURS ==
    [p \in TICKET_PRIORITY_VALUES |->
        CASE p = "low" -> 24 [] p = "medium" -> 8 [] p = "high" -> 2 [] p = "critical" -> 1]
TICKET_RESOLUTION_SLA_HOURS ==
    [p \in TICKET_PRIORITY_VALUES |->
        CASE p = "low" -> 72 [] p = "medium" -> 24 [] p = "high" -> 8 [] p = "critical" -> 4]

(***************************************************************************)
(* Pure functions of logic.py.                                             *)
(***************************************************************************)
\* normalize_ticket_status: TRUE iff the value is accepted (inputs are
\* already stripped and lower-cased).
normalize_ticket_status_ok(value) == value \in TICKET_STATUS_VALUES

\* A faulty variant: the pair is looked up the wrong way round.
validate_ticket_transition_reversed(current, target) ==
    IF current = target THEN TRUE
    ELSE current \in TICKET_TRANSITIONS[target]

\* validate_ticket_transition: TRUE iff it returns without raising.
validate_ticket_transition(current, target) ==
    IF current = target THEN TRUE
    ELSE target \in TICKET_TRANSITIONS[current]

\* calculate_ticket_deadlines: <<first_due, resolution_due>>.
calculate_ticket_deadlines(priority, created_at) ==
    << created_at + TICKET_FIRST_RESPONSE_SLA_HOURS[priority] * Hour,
       created_at + TICKET_RESOLUTION_SLA_HOURS[priority] * Hour >>

\* A faulty variant: a ticket read at the very minute of its deadline is not
\* yet breached.
compute_ticket_sla_state_strict(ticket, clock) ==
    IF ticket.status \in TICKET_RESOLUTION_STATUSES THEN "completed"
    ELSE IF ticket.resolution_due_at = NullTime THEN "on_track"
    ELSE IF ticket.resolution_due_at < clock THEN "breached"
    ELSE IF ticket.resolution_due_at <= clock + 2 * Hour THEN "at_risk"
    ELSE "on_track"

\* compute_ticket_sla_state, with the clock value it reads as a parameter.
compute_ticket_sla_state(ticket, clock) ==
    IF ticket.status \in TICKET_RESOLUTION_STATUSES THEN "completed"
    ELSE IF ticket.resolution_due_at = NullTime THEN "on_track"
    ELSE IF ticket.resolution_due_at <= clock THEN "breached"
    ELSE IF ticket.resolution_due_at <= clock + 2 * Hour THEN "at_risk"
    ELSE "on_track"

\* A faulty variant: a developer may assign to anyone.
validate_assignment_permission_lax(current_user_id, assignee_id) ==
    IF users[current_user_id] \in {"admin", "developer"} THEN "ok"
    ELSE "forbidden"

\* validate_assignment_permission: "ok" or the error it raises.
validate_assignment_permission(current_user_id, assignee_id) ==
    IF users[current_user_id] = "admin" THEN "ok"
    ELSE IF users[current_user_id] = "developer"
         THEN IF assignee_id = None \/ assignee_id = current_user_id THEN "ok"
              ELSE "forbidden"
         ELSE "forbidden"

\* A faulty variant: the payload is dropped and the default {} is stored.
log_ticket_event_no_payload(ticket_id, actor_id, event_type, payload, flush_at) ==
    [ticket_id |-> ticket_id, actor_id |-> actor_id,
     event_type |-> event_type, payload |-> <<>>, created_at |-> flush_at]

\* log_ticket_event: the row db.add() puts into the session, with the
\* created_at its column default gives it when the session is flushed.
log_ticket_event(ticket_id, actor_id, event_type, payload, flush_at) ==
    [ticket_id |-> ticket_id, actor_id |-> actor_id,
     event_type |-> event_type, payload |-> payload, created_at |-> flush_at]

\* A faulty variant: the state is the one computed when the ticket was filed.
ticket_to_out_stale(ticket) ==
    [status |-> ticket.status,
     slaState |-> compute_ticket_sla_state(ticket, ticket.created_at)]

\* ticket_to_out: the derived field of the read model.
ticket_to_out(ticket) == [status |-> ticket.status,
                          slaState |-> compute_ticket_sla_state(ticket, now)]

(***************************************************************************)
(* Sessions.  get_db closes the session when the handler returns or raises; *)
(* what was not committed is rolled back.                                  *)
(***************************************************************************)
\* A faulty variant: the session's content reaches the store even when the
\* handler raised.
get_db_autocommit(code, pending, stored) == pending

get_db(code, pending, stored) == IF code = "ok" THEN pending ELSE stored

require_developer_or_admin(uid) ==
    /\ uid \in UserIds
    /\ users[uid] \in {"admin", "developer"}

require_admin(uid) ==
    /\ uid \in UserIds
    /\ users[uid] = "admin"

get_current_user(uid) ==
    /\ uid \in UserIds
    /\ users[uid] # Absent

MODULE_NAMES == {"personal", "work", "tickets", "assets", "admin"}

DEFAULT_ROLE_MODULE_ACCESS ==
    [role \in UserRole |->
        [module \in MODULE_NAMES |->
            CASE role = "admin" -> TRUE
              [] role = "developer" -> module # "admin"
              [] role = "user" -> module \notin {"assets", "admin"}]]

\* A row of role_module_access is "enabled" or "disabled"; "unset" is the row
\* that is absent.
Unset == "unset"

get_role_module_access_map(role) ==
    [module \in MODULE_NAMES |->
        IF role = "admin" /\ module = "admin" THEN TRUE
        ELSE IF role_module_access[role][module] = Unset
             THEN DEFAULT_ROLE_MODULE_ACCESS[role][module]
             ELSE role_module_access[role][module] = "enabled"]

\* ensure_module_access: TRUE iff it returns without raising.
ensure_module_access(uid, module) == get_role_module_access_map(users[uid])[module]

require_tickets_access(uid) ==
    get_current_user(uid) /\ ensure_module_access(uid, "tickets")

require_team_tickets_access(uid) ==
    require_developer_or_admin(uid) /\ ensure_module_access(uid, "tickets")

require_assets_access(uid) ==
    get_current_user(uid) /\ ensure_module_access(uid, "assets")

require_team_assets_access(uid) ==
    require_developer_or_admin(uid) /\ ensure_module_access(uid, "assets")

require_admin_access(uid) ==
    require_admin(uid) /\ ensure_module_access(uid, "admin")

(***************************************************************************)
(* Initial state: three accounts, one of each role, no ticket.             *)
(***************************************************************************)
Init ==
    /\ users = [u \in UserIds |->
                   CASE u = "u1" -> "admin" [] u = "u2" -> "developer" [] OTHER -> "user"]
    /\ tickets = [t \in TicketIds |-> NoTicket]
    /\ ticket_events = <<>>
    /\ ticket_ids_issued = {}
    /\ now = 0
    /\ assets = [a \in AssetIds |-> NoAsset]
    /\ asset_events = <<>>
    /\ asset_requests = [r \in RequestIds |-> NoRequest]
    /\ role_module_access = [role \in UserRole |-> [module \in MODULE_NAMES |-> Unset]]
    /\ audit_logs = <<>>
    /\ audit_payload = [kind |-> "dict", items |-> <<>>]
    /\ maintenance_records = <<>>
    /\ audit_archive = <<>>
    /\ cleanup_request = NoRequest
    /\ audit_listing = NoRequest

(***************************************************************************)
(* create_ticket.                                                          *)
(***************************************************************************)
\* The session of create_ticket: the deadlines come from the handler's own
\* clock read; created_at is the column default, evaluated at flush time.
create_ticket_session(ticket_id, priority, current_user_id, flush_at) ==
    LET due == calculate_ticket_deadlines(priority, now)
        ticket == [requester_id |-> current_user_id,
                   priority |-> priority,
                   status |-> "new",
                   resolution |-> "",
                   process_notes |-> "",
                   evidence |-> <<>>,
                   fixed_by_id |-> None,
                   assignee_id |-> None,
                   first_response_due_at |-> due[1],
                   resolution_due_at |-> due[2],
                   first_responded_at |-> NullTime,
                   resolved_at |-> NullTime,
                   closed_at |-> NullTime,
                   created_at |-> flush_at]
    IN [code |-> "ok",
        obj |-> ticket,
        events |-> << log_ticket_event(ticket_id, current_user_id, "created",
                                       [status |-> ticket.status, priority |-> priority],
                                       flush_at) >>]

create_ticket(ticket_id, priority, current_user_id) ==
    /\ require_tickets_access(current_user_id)
    /\ ticket_id \notin ticket_ids_issued
    /\ Len(ticket_events) < MaxEvents
    /\ ticket_ids_issued' = ticket_ids_issued \cup {ticket_id}
    /\ \E flush_at \in {now, now + 1} :
          /\ LET s == create_ticket_session(ticket_id, priority, current_user_id, flush_at)
             IN /\ tickets' = [tickets EXCEPT ![ticket_id] = s.obj]
                /\ ticket_events' = ticket_events \o s.events
                /\ now' = flush_at
    /\ UNCHANGED <<users, asset_store, audit_store, maintenance_records,
                   admin_requests>>

(***************************************************************************)
(* patch_ticket.                                                           *)
(***************************************************************************)
\* An image payload is the sequence of its parts, <<prefix, rest>>; None and
\* the empty string, both falsy, are the empty sequence.
NoImage == <<>>

\* str.startswith("data:image/").
is_data_image_url(image_data) == image_data[1] = "data:image/"

\* The evidence loop: "ok" with the normalized list, or the error it raises at
\* the first item whose image is no data:image/ URL.
normalize_evidence(items) ==
    IF \E i \in 1..Len(items) :
          items[i].imageData # NoImage /\ ~is_data_image_url(items[i].imageData)
    THEN [code |-> "invalid_evidence", value |-> <<>>]
    ELSE [code |-> "ok",
          value |-> [i \in 1..Len(items) |->
                        [id |-> items[i].id, imageData |-> items[i].imageData]]]

\* A faulty variant: every patch that leaves the ticket in triaged or
\* in_progress stamps first_responded_at.
apply_status_timestamps_restamping(ticket, current_user_id) ==
    LET t1 == IF ticket.status \in {"in_progress", "triaged"}
              THEN [ticket EXCEPT !.first_responded_at = now] ELSE ticket
        t2 == IF t1.status = "resolved"
              THEN [t1 EXCEPT !.resolved_at = now, !.closed_at = NullTime] ELSE t1
        t3 == IF t2.status = "closed" THEN [t2 EXCEPT !.closed_at = now] ELSE t2
        t4 == IF t3.status = "reopened"
              THEN [t3 EXCEPT !.resolved_at = NullTime, !.closed_at = NullTime] ELSE t3
    IN [t4 EXCEPT !.fixed_by_id =
            IF t4.status \in {"in_progress", "resolved", "closed"}
            THEN current_user_id ELSE None]

\* A faulty variant: reopening clears resolved_at and keeps closed_at.
apply_status_timestamps_reopen_keeps_closed(ticket, current_user_id) ==
    LET t1 == IF ticket.status \in {"in_progress", "triaged"}
                 /\ ticket.first_responded_at = NullTime
              THEN [ticket EXCEPT !.first_responded_at = now] ELSE ticket
        t2 == IF t1.status = "resolved"
              THEN [t1 EXCEPT !.resolved_at = now] ELSE t1
        t3 == IF t2.status = "closed" THEN [t2 EXCEPT !.closed_at = now] ELSE t2
        t4 == IF t3.status = "reopened"
              THEN [t3 EXCEPT !.resolved_at = NullTime] ELSE t3
    IN [t4 EXCEPT !.fixed_by_id =
            IF t4.status \in {"in_progress", "resolved", "closed"}
            THEN current_user_id ELSE None]

\* A faulty variant: reopening clears closed_at and keeps resolved_at.
apply_status_timestamps_reopen_keeps_resolved(ticket, current_user_id) ==
    LET t1 == IF ticket.status \in {"in_progress", "triaged"}
                 /\ ticket.first_responded_at = NullTime
              THEN [ticket EXCEPT !.first_responded_at = now] ELSE ticket
        t2 == IF t1.status = "resolved"
              THEN [t1 EXCEPT !.resolved_at = now, !.closed_at = NullTime] ELSE t1
        t3 == IF t2.status = "closed" THEN [t2 EXCEPT !.closed_at = now] ELSE t2
        t4 == IF t3.status = "reopened"
              THEN [t3 EXCEPT !.closed_at = NullTime] ELSE t3
    IN [t4 EXCEPT !.fixed_by_id =
            IF t4.status \in {"in_progress", "resolved", "closed"}
            THEN current_user_id ELSE None]

\* A faulty variant: fixed_by_id is set but never cleared.
apply_status_timestamps_keep_fixer(ticket, current_user_id) ==
    LET t1 == IF ticket.status \in {"in_progress", "triaged"}
                 /\ ticket.first_responded_at = NullTime
              THEN [ticket EXCEPT !.first_responded_at = now] ELSE ticket
        t2 == IF t1.status = "resolved"
              THEN [t1 EXCEPT !.resolved_at = now, !.closed_at = NullTime] ELSE t1
        t3 == IF t2.status = "closed" THEN [t2 EXCEPT !.closed_at = now] ELSE t2
        t4 == IF t3.status = "reopened"
              THEN [t3 EXCEPT !.resolved_at = NullTime, !.closed_at = NullTime] ELSE t3
    IN IF t4.status \in {"in_progress", "resolved", "closed"}
       THEN [t4 EXCEPT !.fixed_by_id = current_user_id] ELSE t4

\* Lifecycle side effects of patch_ticket on the in-memory ticket, after the
\* status, resolution, assignee, notes and evidence have been assigned.
apply_status_timestamps(ticket, current_user_id) ==
    LET t1 == IF ticket.status \in {"in_progress", "triaged"}
                 /\ ticket.first_responded_at = NullTime
              THEN [ticket EXCEPT !.first_responded_at = now] ELSE ticket
        t2 == IF t1.status = "resolved"
              THEN [t1 EXCEPT !.resolved_at = now, !.closed_at = NullTime] ELSE t1
        t3 == IF t2.status = "closed" THEN [t2 EXCEPT !.closed_at = now] ELSE t2
        t4 == IF t3.status = "reopened"
              THEN [t3 EXCEPT !.resolved_at = NullTime, !.closed_at = NullTime] ELSE t3
    IN [t4 EXCEPT !.fixed_by_id =
            IF t4.status \in {"in_progress", "resolved", "closed"}
            THEN current_user_id ELSE None]

\* The assignee block shared by patch_ticket (requested = None for "") and
\* assign_ticket: the in-memory ticket after it, or the error raised in it.
resolve_assignee(ticket, current_user_id, requested_assignee_id) ==
    LET perm == validate_assignment_permission(current_user_id, requested_assignee_id)
    IN IF perm # "ok" THEN [code |-> perm, obj |-> ticket]
       ELSE IF requested_assignee_id = None
            THEN [code |-> "ok", obj |-> [ticket EXCEPT !.assignee_id = None]]
       ELSE IF requested_assignee_id \notin UserIds \/ users[requested_assignee_id] = Absent
            THEN [code |-> "assignee_not_found", obj |-> ticket]
       ELSE IF users[requested_assignee_id] \notin {"admin", "developer"}
            THEN [code |-> "invalid_assignee", obj |-> ticket]
       ELSE [code |-> "ok", obj |-> [ticket EXCEPT !.assignee_id = requested_assignee_id]]

\* The session of patch_ticket on the loaded ticket: the response code, the
\* in-memory ticket at the point the handler returned or raised, and the
\* events added to the session.
patch_ticket_session(ticket_id, ticket, payload, current_user_id) ==
    IF payload.status # None /\ ~normalize_ticket_status_ok(payload.status)
    THEN [code |-> "invalid_status", obj |-> ticket, events |-> <<>>]
    ELSE
    LET next_status == IF payload.status # None THEN payload.status ELSE ticket.status
    IN IF ~validate_ticket_transition(ticket.status, next_status)
       THEN [code |-> "invalid_transition", obj |-> ticket, events |-> <<>>]
       ELSE
       LET previous_status == ticket.status
           t1 == [ticket EXCEPT !.status = next_status, !.resolution = payload.resolution]
           a == IF payload.assigneeId # None
                THEN resolve_assignee(t1, current_user_id,
                        IF payload.assigneeId # "" THEN payload.assigneeId ELSE None)
                ELSE [code |-> "ok", obj |-> t1]
       IN IF a.code # "ok" THEN [code |-> a.code, obj |-> a.obj, events |-> <<>>]
          ELSE
          LET t2 == IF payload.processNotes # None
                    THEN [a.obj EXCEPT !.process_notes = payload.processNotes] ELSE a.obj
              e == IF payload.evidence.given THEN normalize_evidence(payload.evidence.items)
                   ELSE [code |-> "ok", value |-> t2.evidence]
          IN IF e.code # "ok" THEN [code |-> e.code, obj |-> t2, events |-> <<>>]
             ELSE
             LET t3 == [t2 EXCEPT !.evidence = e.value]
                 t4 == apply_status_timestamps(t3, current_user_id)
             IN [code |-> "ok",
                 obj |-> t4,
                 events |-> << log_ticket_event(ticket_id, current_user_id, "updated",
                                  [previousStatus |-> previous_status,
                                   status |-> t4.status,
                                   assigneeId |-> t4.assignee_id],
                                  now) >>]

\* The whole request: what the store and the caller see when it is over.
patch_ticket_result(ticket_id, payload, current_user_id) ==
    IF tickets[ticket_id] = NoTicket
    THEN [code |-> "not_found", tickets |-> tickets, ticket_events |-> ticket_events]
    ELSE LET s == patch_ticket_session(ticket_id, tickets[ticket_id], payload, current_user_id)
         IN [code |-> s.code,
             tickets |-> get_db(s.code, [tickets EXCEPT ![ticket_id] = s.obj], tickets),
             ticket_events |-> get_db(s.code, ticket_events \o s.events, ticket_events)]

patch_ticket(ticket_id, payload, current_user_id) ==
    /\ require_team_tickets_access(current_user_id)
    /\ LET r == patch_ticket_result(ticket_id, payload, current_user_id)
       IN /\ Len(r.ticket_events) <= MaxEvents
          /\ tickets' = r.tickets
          /\ ticket_events' = r.ticket_events
    /\ UNCHANGED <<users, ticket_ids_issued, now, asset_store, audit_store, maintenance_records,
                   admin_requests>>

(***************************************************************************)
(* assign_ticket.                                                          *)
(***************************************************************************)
assign_ticket_session(ticket_id, ticket, payload, current_user_id) ==
    LET a == resolve_assignee(ticket, current_user_id, payload.assigneeId)
    IN IF a.code # "ok" THEN [code |-> a.code, obj |-> a.obj, events |-> <<>>]
       ELSE [code |-> "ok",
             obj |-> a.obj,
             events |-> << log_ticket_event(ticket_id, current_user_id, "assigned",
                              [assigneeId |-> a.obj.assignee_id], now) >>]

assign_ticket_result(ticket_id, payload, current_user_id) ==
    IF tickets[ticket_id] = NoTicket
    THEN [code |-> "not_found", tickets |-> tickets, ticket_events |-> ticket_events]
    ELSE LET s == assign_ticket_session(ticket_id, tickets[ticket_id], payload, current_user_id)
         IN [code |-> s.code,
             tickets |-> get_db(s.code, [tickets EXCEPT ![ticket_id] = s.obj], tickets),
             ticket_events |-> get_db(s.code, ticket_events \o s.events, ticket_events)]

assign_ticket(ticket_id, payload, current_user_id) ==
    /\ require_team_tickets_access(current_user_id)
    /\ LET r == assign_ticket_result(ticket_id, payload, current_user_id)
       IN /\ Len(r.ticket_events) <= MaxEvents
          /\ tickets' = r.tickets
          /\ ticket_events' = r.ticket_events
    /\ UNCHANGED <<users, ticket_ids_issued, now, asset_store, audit_store, maintenance_records,
                   admin_requests>>

(***************************************************************************)
(* delete_my_ticket, bulk_delete_my_tickets.                               *)
(***************************************************************************)
\* The store without the tickets of the set and without their events.
without_tickets(ticket_ids) ==
    [tickets |-> [t \in TicketIds |-> IF t \in ticket_ids THEN NoTicket ELSE tickets[t]],
     ticket_events |-> SelectSeq(ticket_events, LAMBDA e : e.ticket_id \notin ticket_ids)]

\* A faulty variant: the ticket row is deleted and its events are left.
delete_my_ticket_result_keep_events(ticket_id, current_user_id) ==
    IF ticket_id \notin TicketIds \/ tickets[ticket_id] = NoTicket
       \/ tickets[ticket_id].requester_id # current_user_id
    THEN [code |-> "not_found", tickets |-> tickets, ticket_events |-> ticket_events]
    ELSE [code |-> "ok",
          tickets |-> without_tickets({ticket_id}).tickets,
          ticket_events |-> ticket_events]

delete_my_ticket_result(ticket_id, current_user_id) ==
    IF ticket_id \notin TicketIds \/ tickets[ticket_id] = NoTicket
       \/ tickets[ticket_id].requester_id # current_user_id
    THEN [code |-> "not_found", tickets |-> tickets, ticket_events |-> ticket_events]
    ELSE [code |-> "ok",
          tickets |-> without_tickets({ticket_id}).tickets,
          ticket_events |-> without_tickets({ticket_id}).ticket_events]

delete_my_ticket(ticket_id, current_user_id) ==
    /\ require_tickets_access(current_user_id)
    /\ LET r == delete_my_ticket_result(ticket_id, current_user_id)
       IN /\ tickets' = r.tickets
          /\ ticket_events' = r.ticket_events
    /\ UNCHANGED <<users, ticket_ids_issued, now, asset_store, audit_store, maintenance_records,
                   admin_requests>>

\* payload.ids is a list; the empty string is dropped and a repeated id counts
\* once.  The result carries the number of deleted tickets.
bulk_delete_my_tickets_result(ids, current_user_id) ==
    LET requested_ids == {ids[i] : i \in 1..Len(ids)} \ {""}
        ticket_ids == {t \in requested_ids \cap TicketIds :
                          /\ tickets[t] # NoTicket
                          /\ tickets[t].requester_id = current_user_id}
    IN [code |-> "ok",
        deleted |-> Cardinality(ticket_ids),
        tickets |-> without_tickets(ticket_ids).tickets,
        ticket_events |-> without_tickets(ticket_ids).ticket_events]

bulk_delete_my_tickets(ids, current_user_id) ==
    /\ require_tickets_access(current_user_id)
    /\ LET r == bulk_delete_my_tickets_result(ids, current_user_id)
       IN /\ tickets' = r.tickets
          /\ ticket_events' = r.ticket_events
    /\ UNCHANGED <<users, ticket_ids_issued, now, asset_store, audit_store, maintenance_records,
                   admin_requests>>

(***************************************************************************)
(* Text.  A string is the sequence of its chunks; a chunk is a run of      *)
(* whitespace or a word, a word being its letters and the case they are    *)
(* written in (a word of mixed case is capitalized).                       *)
(***************************************************************************)
Space == [text |-> " ", case |-> "none"]
Lower(text) == << [text |-> text, case |-> "lower"] >>
Upper(text) == << [text |-> text, case |-> "upper"] >>
Mixed(text) == << [text |-> text, case |-> "mixed"] >>
Padded(str) == <<Space>> \o str \o <<Space>>

RECURSIVE lstrip(_)
lstrip(str) == IF str # <<>> /\ Head(str) = Space THEN lstrip(Tail(str)) ELSE str

RECURSIVE rstrip(_)
rstrip(str) ==
    IF str # <<>> /\ str[Len(str)] = Space THEN rstrip(SubSeq(str, 1, Len(str) - 1))
    ELSE str

\* str.strip(), str.upper(), str.lower().
strip(str) == rstrip(lstrip(str))
upper(str) == [i \in 1..Len(str) |->
                  IF str[i] = Space THEN Space ELSE [str[i] EXCEPT !.case = "upper"]]
lower(str) == [i \in 1..Len(str) |->
                  IF str[i] = Space THEN Space ELSE [str[i] EXCEPT !.case = "lower"]]

\* A decimal numeral is the sequence of its digits: str(n), and n:0{width}d.
RECURSIVE decimal(_)
decimal(n) == IF n < 10 THEN <<n>> ELSE Append(decimal(n \div 10), n % 10)

RECURSIVE zero_pad(_, _)
zero_pad(digits, width) ==
    IF Len(digits) >= width THEN digits ELSE zero_pad(<<0>> \o digits, width)

\* int(digits).
RECURSIVE int(_)
int(digits) ==
    IF digits = <<>> THEN 0
    ELSE 10 * int(SubSeq(digits, 1, Len(digits) - 1)) + digits[Len(digits)]

(***************************************************************************)
(* Asset tags and QR codes (logic.py).                                     *)
(***************************************************************************)
\* An asset tag is its prefix and its digits: "TDC-0007" is
\* [prefix |-> "TDC-", digits |-> <<0, 0, 0, 7>>].
\* The prefix as re.IGNORECASE reads it: the letters of "TDC-" in either case.
ignorecase(prefix) ==
    IF prefix \in {"TDC-", "tdc-", "Tdc-"} THEN "TDC-" ELSE prefix

\* re.match(r"^TDC-(\d{4,})$", tag, re.IGNORECASE): the tag has the prefix, in
\* either case, and four digits or more.
tag_matches(tag) == ignorecase(tag.prefix) = "TDC-" /\ Len(tag.digits) >= 4

RECURSIVE highest_tag(_)
highest_tag(tags) ==
    IF tags = {} THEN 0
    ELSE LET tag == CHOOSE x \in tags : TRUE
             rest == highest_tag(tags \ {tag})
         IN IF tag_matches(tag) /\ int(tag.digits) > rest THEN int(tag.digits) ELSE rest

\* A faulty variant: the tag after the number of stored tags.
build_next_asset_tag_by_count(tags) ==
    [prefix |-> "TDC-", digits |-> zero_pad(decimal(Cardinality(tags) + 1), 4)]

\* build_next_asset_tag, on the tags the SELECT returned.
build_next_asset_tag(tags) ==
    [prefix |-> "TDC-", digits |-> zero_pad(decimal(highest_tag(tags) + 1), 4)]

UNASSIGNED_USER_LABEL == Mixed("unassigned")

normalize_assigned_user(value) ==
    IF strip(value) # <<>> THEN strip(value) ELSE UNASSIGNED_USER_LABEL

\* A faulty variant: any class is taken as it comes.
normalize_qr_class_lax(value) ==
    [code |-> "ok", value |-> upper(strip(IF value = <<>> THEN Upper("a") ELSE value))]

\* normalize_qr_class: "ok" with the class, or the error.
normalize_qr_class(value) ==
    LET qr_class == upper(strip(IF value = <<>> THEN Upper("a") ELSE value))
    IN IF qr_class \in {Upper("a"), Upper("b"), Upper("c")}
       THEN [code |-> "ok", value |-> qr_class]
       ELSE [code |-> "invalid_qr_class", value |-> qr_class]

\* The runs start with the year 2099, and a year is 365 days.
StartYear == 2099
Year == 365 * 24 * Hour
YearInstants == {0, Year}
\* datetime.now(timezone.utc).year
year_of(clock) == StartYear + clock \div Year

\* build_qr_code_from_asset_tag, with the clock value it reads: "ok" with the
\* code TDC-{yy}-{consecutive:04d}-{class}, or the error.
build_qr_code_from_asset_tag(asset_tag, qr_class, clock) ==
    IF ~tag_matches(asset_tag) THEN [code |-> "invalid_asset_tag", value |-> <<>>]
    ELSE LET consecutive == int(asset_tag.digits)
             current_year == year_of(clock) % 100
         IN [code |-> "ok",
             value |-> [prefix |-> "TDC-",
                        year_segment |-> zero_pad(decimal(current_year), 2),
                        consecutive |-> zero_pad(decimal(consecutive), 4),
                        qr_class |-> qr_class]]

\* A faulty variant: the created_at default is not applied.
log_asset_event_undated(asset_id, actor_id, event_type, payload, flush_at) ==
    [asset_id |-> asset_id, actor_id |-> actor_id,
     event_type |-> event_type, payload |-> payload, created_at |-> NullTime]

\* log_asset_event: the row db.add() puts into the session, with the
\* created_at its column default gives it when the session is flushed.
log_asset_event(asset_id, actor_id, event_type, payload, flush_at) ==
    [asset_id |-> asset_id, actor_id |-> actor_id,
     event_type |-> event_type, payload |-> payload, created_at |-> flush_at]

ASSET_STATUS_VALUES == {Lower("active"), Lower("maintenance"), Lower("retired"), Lower("lost")}

\* The admin and developer roles see every asset, the others their own.
select_asset(asset_id, current_user_id) ==
    IF asset_id \notin AssetIds \/ assets[asset_id] = NoAsset THEN NoAsset
    ELSE IF users[current_user_id] \in {"admin", "developer"} THEN assets[asset_id]
    ELSE IF assets[asset_id].owner_id = current_user_id THEN assets[asset_id]
    ELSE NoAsset

(***************************************************************************)
(* create_asset.                                                           *)
(***************************************************************************)
\* The tags of the committed assets: what SELECT asset_tag FROM assets gives.
stored_asset_tags == {assets[a].asset_tag : a \in {x \in AssetIds : assets[x] # NoAsset}}

\* The session of create_asset after its scan of the stored tags, db.add,
\* db.flush and log_asset_event: the new row and its event, uncommitted.
create_asset_session(asset_id, payload, current_user_id, tags, clock) ==
    LET status_value == lower(strip(payload.status))
        qr_class == normalize_qr_class(payload.qrClass)
    IN IF status_value \notin ASSET_STATUS_VALUES
       THEN [code |-> "invalid_status", asset_id |-> asset_id, obj |-> NoAsset, events |-> <<>>]
       ELSE IF qr_class.code # "ok"
       THEN [code |-> qr_class.code, asset_id |-> asset_id, obj |-> NoAsset, events |-> <<>>]
       ELSE
       LET assigned_user == normalize_assigned_user(payload.user)
           generated_tag == build_next_asset_tag(tags)
           generated_qr == build_qr_code_from_asset_tag(generated_tag, qr_class.value, clock)
           item == [owner_id |-> current_user_id,
                    asset_tag |-> generated_tag,
                    qr_code |-> generated_qr.value,
                    location |-> strip(payload.location),
                    serial_number |-> upper(strip(payload.serialNumber)),
                    category |-> strip(payload.category),
                    manufacturer |-> strip(payload.manufacturer),
                    model |-> strip(payload.model),
                    supplier |-> strip(payload.supplier),
                    status |-> status_value,
                    notes |-> strip(payload.notes),
                    user_name |-> assigned_user,
                    condition |-> strip(payload.condition)]
       IN IF generated_qr.code # "ok"
          THEN [code |-> generated_qr.code, asset_id |-> asset_id, obj |-> NoAsset, events |-> <<>>]
          ELSE [code |-> "ok",
                asset_id |-> asset_id,
                obj |-> item,
                events |-> << log_asset_event(asset_id, current_user_id, "created",
                                 [assetTag |-> item.asset_tag,
                                  status |-> item.status,
                                  location |-> item.location,
                                  user |-> item.user_name],
                                 clock) >>]

\* A faulty variant: the tag column is unique, and the commit of a row whose
\* tag is already stored fails.
commit_create_asset_result_unique_tag(session, clock) ==
    IF session.obj.asset_tag \in stored_asset_tags
    THEN [code |-> "integrity_error", assets |-> assets, asset_events |-> asset_events]
    ELSE [code |-> "ok",
          assets |-> [assets EXCEPT ![session.asset_id] = session.obj],
          asset_events |-> asset_events \o
              [i \in 1..Len(session.events) |-> [session.events[i] EXCEPT !.created_at = clock]]]

\* db.commit() of create_asset: the row and its event reach the store; the
\* event's created_at is the clock at this flush.  The tag column carries no
\* constraint.
commit_create_asset_result(session, clock) ==
    [code |-> "ok",
     assets |-> [assets EXCEPT ![session.asset_id] = session.obj],
     asset_events |-> asset_events \o
         [i \in 1..Len(session.events) |-> [session.events[i] EXCEPT !.created_at = clock]]]

\* The whole request, run without another request in between.
create_asset_result(asset_id, payload, current_user_id) ==
    LET s == create_asset_session(asset_id, payload, current_user_id, stored_asset_tags, now)
    IN IF s.code # "ok"
       THEN [code |-> s.code, assets |-> assets, asset_events |-> asset_events]
       ELSE commit_create_asset_result(s, now)

\* uuid4: an id no asset, event or request in flight carries.
asset_id_unused(asset_id) ==
    /\ assets[asset_id] = NoAsset
    /\ \A i \in 1..Len(asset_events) : asset_events[i].asset_id # asset_id
    /\ \A r \in RequestIds :
          asset_requests[r] # NoRequest => asset_requests[r].asset_id # asset_id

create_asset(asset_id, payload, current_user_id) ==
    /\ require_assets_access(current_user_id)
    /\ asset_id_unused(asset_id)
    /\ LET r == create_asset_result(asset_id, payload, current_user_id)
       IN /\ Len(r.asset_events) <= MaxEvents
          /\ assets' = r.assets
          /\ asset_events' = r.asset_events
    /\ UNCHANGED <<users, tickets, ticket_events, ticket_ids_issued, now,
                   asset_requests, audit_store, maintenance_records,
                   admin_requests>>

\* The request up to its db.flush(): the session is held by the request.
begin_create_asset(request_id, asset_id, payload, current_user_id) ==
    /\ require_assets_access(current_user_id)
    /\ asset_requests[request_id] = NoRequest
    /\ asset_id_unused(asset_id)
    /\ LET s == create_asset_session(asset_id, payload, current_user_id, stored_asset_tags, now)
       IN asset_requests' =
             IF s.code = "ok" THEN [asset_requests EXCEPT ![request_id] = s]
             ELSE asset_requests
    /\ UNCHANGED <<users, tickets, ticket_events, ticket_ids_issued, now,
                   assets, asset_events, audit_store, maintenance_records,
                   admin_requests>>

\* The rest of the request: db.commit().
commit_create_asset(request_id) ==
    /\ asset_requests[request_id] # NoRequest
    /\ LET r == commit_create_asset_result(asset_requests[request_id], now)
       IN /\ Len(r.asset_events) <= MaxEvents
          /\ assets' = get_db(r.code, r.assets, assets)
          /\ asset_events' = get_db(r.code, r.asset_events, asset_events)
    /\ asset_requests' = [asset_requests EXCEPT ![request_id] = NoRequest]
    /\ UNCHANGED <<users, tickets, ticket_events, ticket_ids_issued, now, audit_store, maintenance_records,
                   admin_requests>>

(***************************************************************************)
(* update_asset.                                                           *)
(***************************************************************************)
TrackedFields ==
    {"qrCode", "location", "serialNumber", "category", "manufacturer", "model",
     "supplier", "status", "user", "condition", "notes"}

\* The dict update_asset builds from the row before and after its assignments.
tracked_fields(item) ==
    [key \in TrackedFields |->
        CASE key = "qrCode" -> item.qr_code
          [] key = "location" -> item.location
          [] key = "serialNumber" -> item.serial_number
          [] key = "category" -> item.category
          [] key = "manufacturer" -> item.manufacturer
          [] key = "model" -> item.model
          [] key = "supplier" -> item.supplier
          [] key = "status" -> item.status
          [] key = "user" -> item.user_name
          [] key = "condition" -> item.condition
          [] key = "notes" -> item.notes]

\* A faulty variant: the stored QR code is not compared.
asset_changes_without_qr(previous, current) ==
    [key \in {k \in TrackedFields \ {"qrCode"} : previous[k] # current[k]} |->
        [before |-> previous[key], after |-> current[key]]]

asset_changes(previous, current) ==
    [key \in {k \in TrackedFields : previous[k] # current[k]} |->
        [before |-> previous[key], after |-> current[key]]]

update_asset_session(asset_id, item, payload, current_user_id, clock) ==
    LET status_value == lower(strip(payload.status))
        qr_class == normalize_qr_class(payload.qrClass)
    IN IF status_value \notin ASSET_STATUS_VALUES
       THEN [code |-> "invalid_status", obj |-> item, events |-> <<>>]
       ELSE IF qr_class.code # "ok"
       THEN [code |-> qr_class.code, obj |-> item, events |-> <<>>]
       ELSE
       LET assigned_user == normalize_assigned_user(payload.user)
           qr_code_value == build_qr_code_from_asset_tag(item.asset_tag, qr_class.value, clock)
       IN IF qr_code_value.code # "ok"
          THEN [code |-> qr_code_value.code, obj |-> item, events |-> <<>>]
          ELSE
          LET previous == tracked_fields(item)
              updated == [item EXCEPT
                             !.qr_code = qr_code_value.value,
                             !.location = strip(payload.location),
                             !.serial_number = upper(strip(payload.serialNumber)),
                             !.category = strip(payload.category),
                             !.manufacturer = strip(payload.manufacturer),
                             !.model = strip(payload.model),
                             !.supplier = strip(payload.supplier),
                             !.status = status_value,
                             !.notes = strip(payload.notes),
                             !.user_name = assigned_user,
                             !.condition = strip(payload.condition)]
              current == tracked_fields(updated)
              changes == asset_changes(previous, current)
          IN [code |-> "ok",
              obj |-> updated,
              events |-> IF DOMAIN changes # {}
                         THEN << log_asset_event(asset_id, current_user_id, "updated",
                                    [changes |-> changes], clock) >>
                         ELSE <<>>]

\* A faulty variant: a tag in the body replaces the tag of the asset.
update_asset_result_retagging(asset_id, payload, current_user_id) ==
    IF select_asset(asset_id, current_user_id) = NoAsset
    THEN [code |-> "not_found", assets |-> assets, asset_events |-> asset_events]
    ELSE LET s == update_asset_session(asset_id, assets[asset_id], payload,
                                       current_user_id, now)
             obj == IF tag_matches(payload.assetTag)
                    THEN [s.obj EXCEPT !.asset_tag = payload.assetTag] ELSE s.obj
         IN [code |-> s.code,
             assets |-> get_db(s.code, [assets EXCEPT ![asset_id] = obj], assets),
             asset_events |-> get_db(s.code, asset_events \o s.events, asset_events)]

update_asset_result(asset_id, payload, current_user_id) ==
    IF select_asset(asset_id, current_user_id) = NoAsset
    THEN [code |-> "not_found", assets |-> assets, asset_events |-> asset_events]
    ELSE LET s == update_asset_session(asset_id, assets[asset_id], payload,
                                       current_user_id, now)
         IN [code |-> s.code,
             assets |-> get_db(s.code, [assets EXCEPT ![asset_id] = s.obj], assets),
             asset_events |-> get_db(s.code, asset_events \o s.events, asset_events)]

update_asset(asset_id, payload, current_user_id) ==
    /\ require_assets_access(current_user_id)
    /\ LET r == update_asset_result(asset_id, payload, current_user_id)
       IN /\ Len(r.asset_events) <= MaxEvents
          /\ assets' = r.assets
          /\ asset_events' = r.asset_events
    /\ UNCHANGED <<users, tickets, ticket_events, ticket_ids_issued, now,
                   asset_requests, audit_store, maintenance_records,
                   admin_requests>>

(***************************************************************************)
(* delete_asset, bulk_delete_assets.                                       *)
(***************************************************************************)
\* The event both handlers log before db.delete(item).
deleted_event(asset_id, item, current_user_id, clock) ==
    log_asset_event(asset_id, current_user_id, "deleted",
        [assetTag |-> item.asset_tag,
         status |-> item.status,
         location |-> item.location,
         user |-> item.user_name],
        clock)

\* A faulty variant: the events of the asset are deleted with it.
delete_asset_result_cascading(asset_id, current_user_id) ==
    IF select_asset(asset_id, current_user_id) = NoAsset
    THEN [code |-> "not_found", assets |-> assets, asset_events |-> asset_events]
    ELSE [code |-> "ok",
          assets |-> [assets EXCEPT ![asset_id] = NoAsset],
          asset_events |-> SelectSeq(asset_events, LAMBDA e : e.asset_id # asset_id)]

delete_asset_result(asset_id, current_user_id) ==
    IF select_asset(asset_id, current_user_id) = NoAsset
    THEN [code |-> "not_found", assets |-> assets, asset_events |-> asset_events]
    ELSE [code |-> "ok",
          assets |-> [assets EXCEPT ![asset_id] = NoAsset],
          asset_events |-> Append(asset_events,
              deleted_event(asset_id, assets[asset_id], current_user_id, now))]

delete_asset(asset_id, current_user_id) ==
    /\ require_assets_access(current_user_id)
    /\ LET r == delete_asset_result(asset_id, current_user_id)
       IN /\ Len(r.asset_events) <= MaxEvents
          /\ assets' = r.assets
          /\ asset_events' = r.asset_events
    /\ UNCHANGED <<users, tickets, ticket_events, ticket_ids_issued, now,
                   asset_requests, audit_store, maintenance_records,
                   admin_requests>>

\* The orders in which a SELECT without ORDER BY can return the rows.
RowOrders(ids) ==
    {order \in [1..Cardinality(ids) -> ids] :
        \A i, j \in 1..Cardinality(ids) : i # j => order[i] # order[j]}

\* The results bulk_delete_assets can give: one "deleted" event for each asset
\* found, in the order the SELECT returned the assets.
bulk_delete_assets_results(ids, current_user_id) ==
    LET requested_ids == {ids[i] : i \in 1..Len(ids)} \ {""}
        found == {a \in requested_ids \cap AssetIds : assets[a] # NoAsset}
    IN {[code |-> "ok",
         deleted |-> Cardinality(found),
         assets |-> [a \in AssetIds |-> IF a \in found THEN NoAsset ELSE assets[a]],
         asset_events |-> asset_events \o
             [i \in 1..Cardinality(found) |->
                 deleted_event(order[i], assets[order[i]], current_user_id, now)]] :
        order \in RowOrders(found)}

bulk_delete_assets(ids, current_user_id) ==
    /\ require_team_assets_access(current_user_id)
    /\ \E r \in bulk_delete_assets_results(ids, current_user_id) :
          /\ Len(r.asset_events) <= MaxEvents
          /\ assets' = r.assets
          /\ asset_events' = r.asset_events
    /\ UNCHANGED <<users, tickets, ticket_events, ticket_ids_issued, now,
                   asset_requests, audit_store, maintenance_records,
                   admin_requests>>

(***************************************************************************)
(* create_maintenance_record.                                              *)
(***************************************************************************)
\* A date in a text is its numbers and the format they are written in.
\* parse_date: strptime(value, "%Y-%m-%d").date(), or the error.
parse_date(value) ==
    IF value.format = "%Y-%m-%d"
    THEN [code |-> "ok", value |-> value.numbers]
    ELSE [code |-> "invalid_date", value |-> <<>>]

\* date.isoformat()
isoformat(date) == [numbers |-> date, format |-> "%Y-%m-%d"]

\* str.upper() on the text of a QR code: the letters of the prefix and of the
\* class; blanks stay.
upper_qr(qr) ==
    [qr EXCEPT !.prefix = IF @ \in {"tdc-", "Tdc-"} THEN "TDC-" ELSE @,
               !.qr_class = upper(@)]

\* select(Asset).where(Asset.qr_code == qr): the ids of the rows.
select_asset_by_qr_code(qr) ==
    {a \in AssetIds : assets[a] # NoAsset /\ assets[a].qr_code = qr}

\* select(Asset).where(Asset.serial_number == serial_number): the ids of the
\* rows.
select_asset_by_serial_number(serial_number) ==
    {a \in AssetIds : assets[a] # NoAsset /\ assets[a].serial_number = serial_number}

\* A faulty variant: the serial number is looked up first.
matched_asset_serial_first(record) ==
    IF select_asset_by_serial_number(record.serial_number) # {}
    THEN select_asset_by_serial_number(record.serial_number)
    ELSE select_asset_by_qr_code(record.qr)

\* The rows matched_asset can be: db.scalar() gives the first row of the
\* SELECT by QR code, any of them as the SELECT has no order, and of the
\* SELECT by serial number when the first SELECT has no row.
matched_asset(record) ==
    IF select_asset_by_qr_code(record.qr) # {}
    THEN select_asset_by_qr_code(record.qr)
    ELSE select_asset_by_serial_number(record.serial_number)

\* The outcomes of the handler: the error, or the tables with the record and
\* the event of the matched asset, one outcome for each row db.scalar() can
\* give.
create_maintenance_record_results(record_id, payload, current_user_id) ==
    LET maintenance_type == upper(payload.maintenanceType)
        maintenance_date == parse_date(payload.maintenanceDate)
        rejected(code) == {[code |-> code,
                            maintenance_records |-> maintenance_records,
                            asset_events |-> asset_events]}
    IN IF maintenance_type \notin {Upper("p"), Upper("c")} THEN rejected("invalid_maintenance_type")
       ELSE IF maintenance_date.code # "ok" THEN rejected(maintenance_date.code)
       ELSE
       LET record == [id |-> record_id,
                      owner_id |-> current_user_id,
                      maintenance_date |-> maintenance_date.value,
                      qr |-> upper_qr(payload.qr),
                      serial_number |-> upper(payload.serialNumber),
                      maintenance_type |-> maintenance_type]
           event(asset_id) ==
               log_asset_event(asset_id, current_user_id, "maintenance_recorded",
                   [maintenanceRecordId |-> record.id,
                    maintenanceType |-> record.maintenance_type,
                    maintenanceDate |-> isoformat(record.maintenance_date)],
                   now)
       IN IF matched_asset(record) = {}
          THEN {[code |-> "ok",
                 maintenance_records |-> Append(maintenance_records, record),
                 asset_events |-> asset_events]}
          ELSE {[code |-> "ok",
                 maintenance_records |-> Append(maintenance_records, record),
                 asset_events |-> Append(asset_events, event(a))] : a \in matched_asset(record)}

require_team_work_access(uid) ==
    require_developer_or_admin(uid) /\ ensure_module_access(uid, "work")

\* uuid4: an id no record carries.
record_id_unused(record_id) ==
    \A i \in 1..Len(maintenance_records) : maintenance_records[i].id # record_id

create_maintenance_record(record_id, payload, current_user_id) ==
    /\ require_team_work_access(current_user_id)
    /\ record_id_unused(record_id)
    /\ \E r \in create_maintenance_record_results(record_id, payload, current_user_id) :
          /\ Len(r.asset_events) <= MaxEvents
          /\ maintenance_records' = r.maintenance_records
          /\ asset_events' = r.asset_events
    /\ UNCHANGED <<users, tickets, ticket_events, ticket_ids_issued, now,
                   assets, asset_requests, audit_store,
                   admin_requests>>

(***************************************************************************)
(* list_ticket_events, list_asset_history.                                 *)
(***************************************************************************)
\* ORDER BY created_at ASC, and nothing after it: every order of the rows in
\* which created_at never decreases; rows of equal created_at come back in
\* any order.
order_by_created_at_asc(rows) ==
    LET n == Len(rows)
        orders == {p \in [1..n -> 1..n] :
                      /\ \A i, j \in 1..n : i # j => p[i] # p[j]
                      /\ \A i, j \in 1..n :
                            i < j => rows[p[i]].created_at <= rows[p[j]].created_at}
    IN {[i \in 1..n |-> rows[p[i]]] : p \in orders}

\* ORDER BY created_at DESC.
order_by_created_at_desc(rows) ==
    LET n == Len(rows)
        orders == {p \in [1..n -> 1..n] :
                      /\ \A i, j \in 1..n : i # j => p[i] # p[j]
                      /\ \A i, j \in 1..n :
                            i < j => rows[p[i]].created_at >= rows[p[j]].created_at}
    IN {[i \in 1..n |-> rows[p[i]]] : p \in orders}

\* The lists list_ticket_events can return for a stored ticket.
list_ticket_events_results(ticket_id) ==
    order_by_created_at_asc(SelectSeq(ticket_events, LAMBDA e : e.ticket_id = ticket_id))

\* The lists list_asset_history can return for an asset the caller sees.
list_asset_history_results(asset_id) ==
    order_by_created_at_desc(SelectSeq(asset_events, LAMBDA e : e.asset_id = asset_id))

(***************************************************************************)
(* Audit log (logic.py).  The text of an audit payload is kept as the      *)
(* sequence of its runs: a run is `count` characters of one class, "plain" *)
(* for the printable ASCII characters json.dumps copies and "escaped" for  *)
(* the quotation mark and the backslash, which it writes as two            *)
(* characters.  A JSON value is a string, a boolean, a list or a dict (the *)
(* sequence of its items, in insertion order).                             *)
(***************************************************************************)
AUDIT_RETENTION_DAYS == 180
AUDIT_PAYLOAD_STR_MAX == 500
AUDIT_PAYLOAD_JSON_MAX == 4000

chars(of, count) == << [of |-> of, class |-> "plain", count |-> count] >>
escaped_chars(of, count) == << [of |-> of, class |-> "escaped", count |-> count] >>

\* The words the handlers and json.dumps write, with their lengths.
ascii(word) ==
    chars(word,
          CASE word \in {"{", "}", "[", "]"} -> 1
            [] word \in {": ", ", "} -> 2
            [] word = "..." -> 3
            [] word \in {"true", "user", "role", "work", "name"} -> 4
            [] word \in {"false", "admin", "email", "after", "title", "notes"} -> 5
            [] word \in {"module", "assets", "before", "mobile"} -> 6
            [] word \in {"enabled", "changed", "tickets", "preview", "deleted"} -> 7
            [] word = "personal" -> 8
            [] word \in {"developer", "truncated"} -> 9
            [] word = "department" -> 10
            [] word = "tokenIssued" -> 11
            [] word = "[depth-truncated]" -> 17)

Str(text) == [kind |-> "str", text |-> text]
Bool(value) == [kind |-> "bool", value |-> value]
Number(value) == [kind |-> "int", value |-> value]
List(items) == [kind |-> "list", items |-> items]
Dict(items) == [kind |-> "dict", items |-> items]
Item(key, value) == [key |-> key, value |-> value]

\* len(value).
RECURSIVE len(_)
len(text) ==
    IF text = <<>> THEN 0
    ELSE IF Len(text) = 1 THEN text[1].count
    ELSE len(SubSeq(text, 1, Len(text) \div 2))
            + len(SubSeq(text, Len(text) \div 2 + 1, Len(text)))

\* value[:max_len].
RECURSIVE take(_, _)
take(text, max_len) ==
    IF text = <<>> \/ max_len = 0 THEN <<>>
    ELSE IF Len(text) = 1
         THEN IF text[1].count <= max_len THEN text
              ELSE << [text[1] EXCEPT !.count = max_len] >>
    ELSE LET front == SubSeq(text, 1, Len(text) \div 2)
             back == SubSeq(text, Len(text) \div 2 + 1, Len(text))
         IN IF max_len <= len(front) THEN take(front, max_len)
            ELSE front \o take(back, max_len - len(front))

_truncate_text(value, max_len) ==
    IF len(value) <= max_len THEN value ELSE take(value, max_len) \o ascii("...")

RECURSIVE _sanitize_audit_payload(_, _)
_sanitize_audit_payload(value, depth) ==
    IF depth > 4 THEN Str(ascii("[depth-truncated]"))
    ELSE CASE value.kind \in {"bool", "int"} -> value
           [] value.kind = "str" -> Str(_truncate_text(value.text, AUDIT_PAYLOAD_STR_MAX))
           [] value.kind = "dict" ->
                Dict([i \in 1..Len(value.items) |->
                        Item(_truncate_text(value.items[i].key, 80),
                             _sanitize_audit_payload(value.items[i].value, depth + 1))])
           [] value.kind = "list" ->
                List([i \in 1..IF Len(value.items) < 30 THEN Len(value.items) ELSE 30 |->
                        _sanitize_audit_payload(value.items[i], depth + 1)])

\* The body of a JSON string: a plain character as it is, a quotation mark or
\* a backslash behind a backslash.
json_escape(text) ==
    [i \in 1..Len(text) |->
        IF text[i].class = "escaped" THEN [text[i] EXCEPT !.count = 2 * text[i].count]
        ELSE text[i]]

json_string(text) == escaped_chars("\"", 1) \o json_escape(text) \o escaped_chars("\"", 1)

\* json.dumps(value, ensure_ascii=True), with its default separators.
RECURSIVE json_dumps(_)
RECURSIVE json_dumps_items(_, _)
json_dumps_items(items, kind) ==
    IF items = <<>> THEN <<>>
    ELSE (IF kind = "dict"
          THEN json_string(Head(items).key) \o ascii(": ") \o json_dumps(Head(items).value)
          ELSE json_dumps(Head(items)))
         \o (IF Tail(items) = <<>> THEN <<>> ELSE ascii(", "))
         \o json_dumps_items(Tail(items), kind)

json_dumps(value) ==
    CASE value.kind = "bool" -> IF value.value THEN ascii("true") ELSE ascii("false")
      [] value.kind = "int" -> chars(value.value, Len(decimal(value.value)))
      [] value.kind = "str" -> json_string(value.text)
      [] value.kind = "list" -> ascii("[") \o json_dumps_items(value.items, "list") \o ascii("]")
      [] value.kind = "dict" -> ascii("{") \o json_dumps_items(value.items, "dict") \o ascii("}")

sanitize_audit_payload(payload) ==
    LET normalized == _sanitize_audit_payload(payload, 0)
        raw == json_dumps(normalized)
    IN IF len(raw) <= AUDIT_PAYLOAD_JSON_MAX THEN raw
       ELSE LET preview == _truncate_text(raw, AUDIT_PAYLOAD_JSON_MAX - 64)
            IN json_dumps(Dict(<<Item(ascii("truncated"), Bool(TRUE)),
                                 Item(ascii("preview"), Str(preview))>>))

\* What can happen to the audit session: the row is committed, or add() or
\* commit() raises.
AuditOutcomes == {"committed", "add_raises", "commit_raises"}

\* A faulty variant: the exception of the audit session leaves the function.
write_audit_log_reraising(actor_id, action, target_type, target_id, status, payload, outcome) ==
    [raised |-> outcome # "committed",
     audit_logs |->
        IF outcome = "committed"
        THEN Append(audit_logs,
                    [actor_user_id |-> actor_id, actor_role |-> users[actor_id],
                     action |-> action, target_type |-> target_type,
                     target_id |-> target_id, status |-> status,
                     payload_json |-> sanitize_audit_payload(payload),
                     retention_until |-> now + AUDIT_RETENTION_DAYS * Day])
        ELSE audit_logs]

\* write_audit_log: the audit table after the call, and whether the call
\* raised.  The row is added and committed in a session of its own; an
\* exception of that session is logged and goes no further.
write_audit_log(actor_id, action, target_type, target_id, status, payload, outcome) ==
    [raised |-> FALSE,
     audit_logs |->
        IF outcome = "committed"
        THEN Append(audit_logs,
                    [actor_user_id |-> actor_id, actor_role |-> users[actor_id],
                     action |-> action, target_type |-> target_type,
                     target_id |-> target_id, status |-> status,
                     payload_json |-> sanitize_audit_payload(payload),
                     retention_until |-> now + AUDIT_RETENTION_DAYS * Day])
        ELSE audit_logs]

(***************************************************************************)
(* User administration.                                                    *)
(***************************************************************************)
\* Rows holding a foreign key to users.id that names this user.
user_is_referenced(user_id) ==
    \/ \E t \in TicketIds :
          /\ tickets[t] # NoTicket
          /\ user_id \in {tickets[t].requester_id, tickets[t].assignee_id,
                          tickets[t].fixed_by_id}
    \/ \E i \in 1..Len(ticket_events) : ticket_events[i].actor_id = user_id
    \/ \E a \in AssetIds : assets[a] # NoAsset /\ assets[a].owner_id = user_id
    \/ \E i \in 1..Len(asset_events) : asset_events[i].actor_id = user_id

update_user_result(user_id, role, current_admin_id) ==
    IF users[user_id] = Absent THEN [code |-> "not_found", users |-> users]
    ELSE IF user_id = current_admin_id /\ role # "admin"
         THEN [code |-> "cannot_downgrade_self", users |-> users]
    ELSE [code |-> "ok", users |-> [users EXCEPT ![user_id] = role]]

\* diff_fields over the role of the account (its email is sent back as it is).
diff_fields(before, after) ==
    IF before = after THEN Dict(<<>>)
    ELSE Dict(<<Item(ascii("role"),
                     Dict(<<Item(ascii("before"), Str(ascii(before))),
                            Item(ascii("after"), Str(ascii(after)))>>))>>)

\* update_user: the request's session, then the audit row of the change.
update_user(user_id, role, current_admin_id, audit_outcome) ==
    /\ require_admin_access(current_admin_id)
    /\ LET r == update_user_result(user_id, role, current_admin_id)
       IN /\ users' = r.users
          /\ audit_logs' =
                IF r.code # "ok" THEN audit_logs
                ELSE write_audit_log(current_admin_id, "admin.user.update", "user", user_id,
                                     "success",
                                     Dict(<<Item(ascii("changed"),
                                                 diff_fields(users[user_id], role))>>),
                                     audit_outcome).audit_logs
    /\ UNCHANGED <<tickets, ticket_events, ticket_ids_issued, now, asset_store,
                   role_module_access, audit_payload, maintenance_records,
                   admin_requests>>

\* The commit of the DELETE fails on the foreign keys of the rows that still
\* name the user.
delete_user_result(user_id, current_admin_id) ==
    IF users[user_id] = Absent THEN [code |-> "not_found", users |-> users]
    ELSE IF user_id = current_admin_id
         THEN [code |-> "cannot_delete_self", users |-> users]
    ELSE IF user_is_referenced(user_id)
         THEN [code |-> "integrity_error", users |-> users]
    ELSE [code |-> "ok", users |-> [users EXCEPT ![user_id] = Absent]]

\* delete_user: the request's session, then the audit row of the deletion
\* (the payload names the role of the deleted account).
delete_user(user_id, current_admin_id, audit_outcome) ==
    /\ require_admin_access(current_admin_id)
    /\ LET r == delete_user_result(user_id, current_admin_id)
       IN /\ users' = r.users
          /\ audit_logs' =
                IF r.code # "ok" THEN audit_logs
                ELSE write_audit_log(current_admin_id, "admin.user.delete", "user", user_id,
                                     "success",
                                     Dict(<<Item(ascii("role"), Str(ascii(users[user_id])))>>),
                                     audit_outcome).audit_logs
    /\ UNCHANGED <<tickets, ticket_events, ticket_ids_issued, now, asset_store,
                   role_module_access, audit_payload, maintenance_records,
                   admin_requests>>

(***************************************************************************)
(* Module access administration (api.py).                                  *)
(***************************************************************************)
\* normalize_role_name and normalize_module_name: "ok" with the name, or the
\* 400 they raise.
normalize_role_name(role_name) ==
    LET normalized == lower(strip(role_name))
    IN IF \E role \in UserRole : normalized = Lower(role)
       THEN [code |-> "ok", value |-> CHOOSE role \in UserRole : normalized = Lower(role)]
       ELSE [code |-> "invalid_role", value |-> ""]

normalize_module_name(module_name) ==
    LET normalized == lower(strip(module_name))
    IN IF \E module \in MODULE_NAMES : normalized = Lower(module)
       THEN [code |-> "ok", value |-> CHOOSE module \in MODULE_NAMES : normalized = Lower(module)]
       ELSE [code |-> "invalid_module", value |-> ""]

NoOut == [absent |-> TRUE]

\* A faulty variant: the flag is stored for every pair.
patch_module_access_session_unchecked(role_name, module_name, enabled, current_admin_id) ==
    LET normalized_role == normalize_role_name(role_name)
        normalized_module == normalize_module_name(module_name)
        rejected(code) == [code |-> code, role |-> "", module |-> "",
                           role_module_access |-> role_module_access]
    IN IF normalized_role.code # "ok" THEN rejected(normalized_role.code)
       ELSE IF normalized_module.code # "ok" THEN rejected(normalized_module.code)
       ELSE [code |-> "ok", role |-> normalized_role.value, module |-> normalized_module.value,
             role_module_access |->
                [role_module_access EXCEPT
                    ![normalized_role.value][normalized_module.value] =
                        IF enabled THEN "enabled" ELSE "disabled"]]

\* The request's session of patch_module_access, up to its commit.
patch_module_access_session(role_name, module_name, enabled, current_admin_id) ==
    LET normalized_role == normalize_role_name(role_name)
        normalized_module == normalize_module_name(module_name)
        rejected(code) == [code |-> code, role |-> "", module |-> "",
                           role_module_access |-> role_module_access]
    IN IF normalized_role.code # "ok" THEN rejected(normalized_role.code)
       ELSE IF normalized_module.code # "ok" THEN rejected(normalized_module.code)
       ELSE IF normalized_role.value = "admin" /\ normalized_module.value = "admin" /\ ~enabled
            THEN rejected("cannot_disable_admin")
       ELSE IF /\ normalized_role.value = users[current_admin_id]
               /\ normalized_module.value = "admin"
               /\ ~enabled
            THEN rejected("cannot_remove_own_access")
       ELSE [code |-> "ok", role |-> normalized_role.value, module |-> normalized_module.value,
             role_module_access |->
                [role_module_access EXCEPT
                    ![normalized_role.value][normalized_module.value] =
                        IF enabled THEN "enabled" ELSE "disabled"]]

\* patch_module_access: the commit of the request's session, then the audit
\* row, then the response.
patch_module_access_result(role_name, module_name, enabled, current_admin_id, audit_outcome) ==
    LET s == patch_module_access_session(role_name, module_name, enabled, current_admin_id)
        audit == IF s.code # "ok" THEN [raised |-> FALSE, audit_logs |-> audit_logs]
                 ELSE write_audit_log(current_admin_id, "admin.module_access.update",
                                      "module_access", <<s.role, s.module>>, "success",
                                      Dict(<<Item(ascii("role"), Str(ascii(s.role))),
                                             Item(ascii("module"), Str(ascii(s.module))),
                                             Item(ascii("enabled"), Bool(enabled))>>),
                                      audit_outcome)
    IN [code |-> IF audit.raised THEN "server_error" ELSE s.code,
        out |-> IF s.code = "ok" /\ ~audit.raised
                THEN [role |-> s.role, module |-> s.module, enabled |-> enabled]
                ELSE NoOut,
        role_module_access |-> get_db(s.code, s.role_module_access, role_module_access),
        audit_logs |-> audit.audit_logs]

patch_module_access(role_name, module_name, enabled, current_admin_id, audit_outcome) ==
    /\ require_admin_access(current_admin_id)
    /\ LET r == patch_module_access_result(role_name, module_name, enabled,
                                           current_admin_id, audit_outcome)
       IN /\ role_module_access' = r.role_module_access
          /\ audit_logs' = r.audit_logs
    /\ UNCHANGED <<users, tickets, ticket_events, ticket_ids_issued, now, asset_store,
                   audit_payload, maintenance_records,
                   admin_requests>>

(***************************************************************************)
(* cleanup_audit_logs.  The table audit_logs is the rows the handlers of   *)
(* the run have written (audit_logs) and the rows written before the run,  *)
(* counted by their retention_until (audit_archive[t] rows expire at t).   *)
(* Every batch is a transaction of its own, and a step.                    *)
(***************************************************************************)
batch_size == 1000

RECURSIVE sum(_, _)
sum(f, keys) ==
    IF keys = {} THEN 0
    ELSE LET k == CHOOSE x \in keys : TRUE IN f[k] + sum(f, keys \ {k})

\* The rows of the table with a retention_until, in the archive and in
\* audit_logs.
archived_at(archive, t) == IF t \in DOMAIN archive THEN archive[t] ELSE 0
logged_at(logs, t) == {i \in 1..Len(logs) : logs[i].retention_until = t}
rows_at(archive, logs, t) == archived_at(archive, t) + Cardinality(logged_at(logs, t))

\* A faulty variant: retention_until <= NOW().
expired_instants_inclusive(archive, logs, clock) ==
    {t \in DOMAIN archive \cup {logs[i].retention_until : i \in 1..Len(logs)} :
        t <= clock /\ rows_at(archive, logs, t) > 0}

\* SELECT id FROM audit_logs WHERE retention_until < NOW(): the instants of
\* the rows.
expired_instants(archive, logs, clock) ==
    {t \in DOMAIN archive \cup {logs[i].retention_until : i \in 1..Len(logs)} :
        t < clock /\ rows_at(archive, logs, t) > 0}

\* The rows of a sequence outside the positions.
without(rows, positions) ==
    LET F[i \in 0..Len(rows)] ==
            IF i = 0 THEN <<>>
            ELSE IF i \in positions THEN F[i - 1] ELSE Append(F[i - 1], rows[i])
    IN F[Len(rows)]

\* DELETE FROM audit_logs WHERE id IN (SELECT ... ORDER BY retention_until ASC
\* LIMIT :batch_size): the tables after it and its rowcount.  The rows go in
\* the order of their retention_until; where the limit falls among rows of
\* one retention_until, any of them go.
delete_expired_batch(archive, logs, clock, limit) ==
    LET expired == expired_instants(archive, logs, clock)
        count == [t \in expired |-> rows_at(archive, logs, t)]
        before(t) == sum(count, {u \in expired : u < t})
        whole == {t \in expired : before(t) + count[t] <= limit}
        cut == {t \in expired : before(t) < limit /\ limit < before(t) + count[t]}
        gone(t) == logged_at(logs, t)
        whole_gone == UNION {gone(t) : t \in whole}
    IN IF cut = {}
       THEN {[audit_archive |-> [t \in DOMAIN archive |->
                                    IF t \in whole THEN 0 ELSE archive[t]],
              audit_logs |-> without(logs, whole_gone),
              rowcount |-> sum(count, whole)]}
       ELSE LET t == CHOOSE x \in cut : TRUE
                k == limit - before(t)
            IN {[audit_archive |-> [u \in DOMAIN archive |->
                                       IF u \in whole THEN 0
                                       ELSE IF u = t THEN archive[u] - (k - Cardinality(P))
                                       ELSE archive[u]],
                 audit_logs |-> without(logs, whole_gone \cup P),
                 rowcount |-> sum(count, whole) + k] :
                   P \in {Q \in SUBSET gone(t) :
                            /\ Cardinality(Q) <= k
                            /\ k - Cardinality(Q) <= archived_at(archive, t)}}

\* The handler up to its loop: total_deleted = 0.
begin_cleanup_audit_logs(current_admin_id) ==
    /\ require_admin_access(current_admin_id)
    /\ IF cleanup_request = NoRequest THEN TRUE ELSE cleanup_request.phase = "returned"
    /\ cleanup_request' = [phase |-> "loop", current_admin_id |-> current_admin_id,
                           total_deleted |-> 0, batches |-> 0, deleted |-> 0,
                           read_at |-> NullTime]
    /\ UNCHANGED <<users, tickets, ticket_events, ticket_ids_issued, now, asset_store,
                   audit_store, maintenance_records, audit_archive, audit_listing>>

\* One turn of the loop: the DELETE, db.commit(), and the test of the rowcount.
cleanup_batch ==
    /\ cleanup_request # NoRequest
    /\ cleanup_request.phase = "loop"
    /\ \E r \in delete_expired_batch(audit_archive, audit_logs, now, batch_size) :
          /\ audit_archive' = r.audit_archive
          /\ audit_logs' = r.audit_logs
          /\ cleanup_request' =
                [cleanup_request EXCEPT
                    !.total_deleted = @ + r.rowcount,
                    !.batches = @ + 1,
                    !.deleted = r.rowcount,
                    !.read_at = now,
                    !.phase = IF r.rowcount < batch_size THEN "audit" ELSE "loop"]
    /\ UNCHANGED <<users, tickets, ticket_events, ticket_ids_issued, now, asset_store,
                   role_module_access, audit_payload, maintenance_records, audit_listing>>

\* After the loop: write_audit_log, and the response.
finish_cleanup_audit_logs(audit_outcome) ==
    /\ cleanup_request # NoRequest
    /\ cleanup_request.phase = "audit"
    /\ audit_logs' =
          write_audit_log(cleanup_request.current_admin_id, "admin.audit.cleanup",
                          "audit_log", "None", "success",
                          Dict(<<Item(ascii("deleted"), Number(cleanup_request.total_deleted))>>),
                          audit_outcome).audit_logs
    /\ cleanup_request' = [cleanup_request EXCEPT !.phase = "returned"]
    /\ UNCHANGED <<users, tickets, ticket_events, ticket_ids_issued, now, asset_store,
                   role_module_access, audit_payload, maintenance_records,
                   audit_archive, audit_listing>>

(***************************************************************************)
(* list_audit_logs.  A row of audit_logs is read by its id, its created_at *)
(* and the columns of the filters; an id stands for its rank in the order  *)
(* of the column.                                                          *)
(***************************************************************************)
NoCursor == [absent |-> TRUE]
\* The empty text where an id is read: it comes before every id.
EmptyId == 0

\* to_iso: value.astimezone(timezone.utc).isoformat(), the instant to its last
\* digit with the offset of UTC.
to_iso(value) == [instant |-> value, offset |-> "+00:00"]

\* parse_iso_datetime: "ok" with the instant in UTC, or the error.
parse_iso_datetime(raw) ==
    IF raw.offset \in {"+00:00", "Z", ""}
    THEN [code |-> "ok", value |-> raw.instant]
    ELSE [code |-> "invalid_datetime", value |-> NullTime]

\* encode_audit_cursor: f"{to_iso(created_at)}|{item_id}", the parts on the
\* two sides of the bar.
encode_audit_cursor(created_at, item_id) ==
    [date_part |-> to_iso(created_at), item_id |-> item_id]

\* decode_audit_cursor: "ok" with the instant and the id, or the error.
decode_audit_cursor(cursor) ==
    LET parsed == parse_iso_datetime(cursor.date_part)
    IN IF parsed.code # "ok" THEN [code |-> parsed.code]
       ELSE IF cursor.item_id = EmptyId THEN [code |-> "invalid_cursor"]
       ELSE [code |-> "ok", created_at |-> parsed.value, item_id |-> cursor.item_id]

\* apply_audit_filters, for the filter on the action; None is no filter.
apply_audit_filters(rows, action) ==
    {row \in rows : action = "None" \/ row.action = action}

\* A faulty variant: the rows of the cursor's instant are left out.
after_cursor_by_instant(row, cursor_created_at, cursor_id) ==
    row.created_at < cursor_created_at

\* The WHERE of the cursor: created_at < c OR (created_at = c AND id < i).
after_cursor(row, cursor_created_at, cursor_id) ==
    \/ row.created_at < cursor_created_at
    \/ row.created_at = cursor_created_at /\ row.id < cursor_id

\* ORDER BY created_at DESC, id DESC.
RECURSIVE order_by_created_at_desc_id_desc(_)
order_by_created_at_desc_id_desc(rows) ==
    IF rows = {} THEN <<>>
    ELSE LET first == CHOOSE row \in rows :
                          \A other \in rows :
                              \/ other.created_at < row.created_at
                              \/ other.created_at = row.created_at /\ other.id <= row.id
         IN <<first>> \o order_by_created_at_desc_id_desc(rows \ {first})

\* list_audit_logs on the rows of the table: the error, or the items and
\* nextCursor.
list_audit_logs(action, limit, cursor) ==
    LET limit_value == IF limit < 1 THEN 1 ELSE IF limit > 200 THEN 200 ELSE limit
        stored == {audit_logs[i] : i \in 1..Len(audit_logs)}
        filtered == apply_audit_filters(stored, action)
        decoded == IF cursor = NoCursor THEN [code |-> "ok"] ELSE decode_audit_cursor(cursor)
    IN IF decoded.code # "ok"
       THEN [code |-> decoded.code, items |-> <<>>, nextCursor |-> NoCursor]
       ELSE
       LET selected == IF cursor = NoCursor THEN filtered
                       ELSE {row \in filtered :
                                after_cursor(row, decoded.created_at, decoded.item_id)}
           ordered == order_by_created_at_desc_id_desc(selected)
           rows == SubSeq(ordered, 1,
                          IF Len(ordered) < limit_value + 1 THEN Len(ordered)
                          ELSE limit_value + 1)
       IN IF Len(rows) > limit_value
          THEN [code |-> "ok",
                items |-> SubSeq(rows, 1, limit_value),
                nextCursor |-> encode_audit_cursor(rows[limit_value].created_at,
                                                   rows[limit_value].id)]
          ELSE [code |-> "ok", items |-> rows, nextCursor |-> NoCursor]

\* The administrator reads the first page of the log.
begin_audit_listing(current_admin_id, action, limit) ==
    /\ require_admin_access(current_admin_id)
    /\ audit_listing = NoRequest
    /\ LET page == list_audit_logs(action, limit, NoCursor)
       IN audit_listing' = [action |-> action, limit |-> limit, pages |-> 1,
                            items |-> page.items, nextCursor |-> page.nextCursor]
    /\ UNCHANGED <<users, tickets, ticket_events, ticket_ids_issued, now, asset_store,
                   audit_store, maintenance_records, audit_archive, cleanup_request>>

\* The administrator reads the next page, with the nextCursor of the last.
continue_audit_listing(current_admin_id) ==
    /\ require_admin_access(current_admin_id)
    /\ audit_listing # NoRequest
    /\ audit_listing.nextCursor # NoCursor
    /\ LET page == list_audit_logs(audit_listing.action, audit_listing.limit,
                                   audit_listing.nextCursor)
       IN /\ page.code = "ok"
          /\ audit_listing' = [audit_listing EXCEPT
                                  !.pages = @ + 1,
                                  !.items = @ \o page.items,
                                  !.nextCursor = page.nextCursor]
    /\ UNCHANGED <<users, tickets, ticket_events, ticket_ids_issued, now, asset_store,
                   audit_store, maintenance_records, audit_archive, cleanup_request>>

(***************************************************************************)
(* Request inputs.                                                         *)
(***************************************************************************)
GoodImage == <<"data:image/", "png;base64,AAAA">>
BadImage == <<"http://", "host/shot.png">>

\* The evidence field of a body: omitted (None), or a list of items.
NoEvidence == [given |-> FALSE, items |-> <<>>]
EvidenceInputs ==
    { NoEvidence,
      [given |-> TRUE, items |-> << [id |-> "e1", imageData |-> GoodImage] >>],
      [given |-> TRUE, items |-> << [id |-> "e1", imageData |-> BadImage] >>] }

\* An id that names no row of users.
GhostId == "u9"

\* Every request body of PATCH /api/tickets/{id} the model considers.
TicketPatchIn ==
    [status : {None, "bogus"} \cup TICKET_STATUS_VALUES,
     assigneeId : {None, "", GhostId} \cup UserIds,
     resolution : {"", "fixed"},
     processNotes : {None, "notes"},
     evidence : EvidenceInputs]

\* Bodies that carry a status and nothing else (the schema defaults).
StatusPatchIn ==
    [status : {None, "bogus"} \cup TICKET_STATUS_VALUES,
     assigneeId : {None},
     resolution : {""},
     processNotes : {None},
     evidence : {NoEvidence}]

\* Bodies that leave the status alone and carry an assignee.
AssigneePatchIn ==
    [status : {None},
     assigneeId : {None, "", GhostId} \cup UserIds,
     resolution : {""},
     processNotes : {None},
     evidence : {NoEvidence}]

\* Bodies that carry a status and an assignee.
StatusAssigneePatchIn ==
    [status : {None, "bogus"} \cup TICKET_STATUS_VALUES,
     assigneeId : {None, "", GhostId} \cup UserIds,
     resolution : {""},
     processNotes : {None},
     evidence : {NoEvidence}]

\* Bodies of the journal runs: a few statuses with any assignee and
\* resolution text, or evidence alone.
JournalPatchIn ==
    [status : {None, "in_progress", "resolved", "closed"},
     assigneeId : {None, "", GhostId} \cup UserIds,
     resolution : {"", "fixed"},
     processNotes : {None},
     evidence : {NoEvidence}]
    \cup
    [status : {None},
     assigneeId : {None},
     resolution : {"", "fixed"},
     processNotes : {None},
     evidence : EvidenceInputs]

TicketAssignIn == [assigneeId : {None, GhostId} \cup UserIds]

(***************************************************************************)
(* Actions.                                                                *)
(***************************************************************************)
CreateTicket ==
    \E ticket_id \in FirstTicketId, priority \in TICKET_PRIORITY_VALUES :
        create_ticket(ticket_id, priority, "u3")

\* create_ticket with the schema's default priority.
CreateDefaultTicket ==
    \E ticket_id \in FirstTicketId :
        /\ create_ticket(ticket_id, "medium", "u3")
        /\ now' = now

PatchStatus ==
    \E ticket_id \in FirstTicketId, payload \in StatusPatchIn :
        patch_ticket(ticket_id, payload, "u1")

PatchAssignee ==
    \E ticket_id \in FirstTicketId, payload \in AssigneePatchIn :
        patch_ticket(ticket_id, payload, "u1")

PatchTicket ==
    \E ticket_id \in FirstTicketId, payload \in JournalPatchIn, uid \in UserIds :
        patch_ticket(ticket_id, payload, uid)

AssignTicket ==
    \E ticket_id \in FirstTicketId, payload \in TicketAssignIn, uid \in UserIds :
        assign_ticket(ticket_id, payload, uid)

AssignByTeam ==
    \E ticket_id \in FirstTicketId, payload \in TicketAssignIn, uid \in {"u1", "u2"} :
        assign_ticket(ticket_id, payload, uid)

AssignSelf ==
    \E ticket_id \in FirstTicketId :
        assign_ticket(ticket_id, [assigneeId |-> "u2"], "u2")

\* A ticket filed by any account, with the schema's default priority.
FileTicket ==
    \E ticket_id \in TicketIds, uid \in UserIds :
        /\ create_ticket(ticket_id, "medium", uid)
        /\ now' = now

\* The developer takes a ticket.
TakeTicket ==
    \E ticket_id \in TicketIds :
        assign_ticket(ticket_id, [assigneeId |-> "u2"], "u2")

\* An id that names no row of tickets.
GhostTicketId == "t9"

DeleteMyTicket ==
    \E ticket_id \in TicketIds \cup {GhostTicketId}, uid \in UserIds :
        delete_my_ticket(ticket_id, uid)

\* Bodies of POST /api/tickets/mine/bulk-delete.
BulkIdsIn ==
    {<<>>, <<"">>, <<GhostTicketId>>}
    \cup {<<a>> : a \in TicketIds}
    \cup {<<a, b>> : a \in TicketIds, b \in TicketIds}

BulkDeleteMyTickets ==
    \E ids \in BulkIdsIn, uid \in UserIds :
        bulk_delete_my_tickets(ids, uid)

\* The body of POST /api/assets and PATCH /api/assets/{id} with the defaults
\* of the schema; assetTag and qrCode are read by neither handler.
NoTag == [prefix |-> "", digits |-> <<>>]
OtherTag == [prefix |-> "TDC-", digits |-> <<0, 0, 4, 2>>]
DefaultAssetIn ==
    [assetTag |-> NoTag,
     qrCode |-> <<>>,
     qrClass |-> Upper("a"),
     location |-> <<>>,
     serialNumber |-> <<>>,
     category |-> <<>>,
     manufacturer |-> <<>>,
     model |-> <<>>,
     supplier |-> <<>>,
     status |-> Lower("active"),
     user |-> <<>>,
     condition |-> <<>>,
     notes |-> <<>>]

\* Bodies of the asset runs: the defaults, a tag of the caller's choosing, a
\* location, a status or a QR class in another spelling, a status or a class
\* that does not exist.
AssetIn ==
    {DefaultAssetIn,
     [DefaultAssetIn EXCEPT !.assetTag = OtherTag],
     [DefaultAssetIn EXCEPT !.location = Padded(Lower("lab"))],
     [DefaultAssetIn EXCEPT !.status = Padded(Upper("lost"))],
     [DefaultAssetIn EXCEPT !.qrClass = Lower("b")],
     [DefaultAssetIn EXCEPT !.status = Lower("bogus")],
     [DefaultAssetIn EXCEPT !.qrClass = Upper("d")]}

\* An id that names no row of assets.
GhostAssetId == "a9"

\* An asset registered with the defaults of the schema, or refused for its
\* status.
CreateAsset ==
    \E asset_id \in AssetIds, uid \in UserIds,
       payload \in {DefaultAssetIn, [DefaultAssetIn EXCEPT !.status = Lower("bogus")]} :
        create_asset(asset_id, payload, uid)

\* An update by the admin.
UpdateAsset ==
    \E asset_id \in AssetIds \cup {GhostAssetId}, payload \in AssetIn :
        update_asset(asset_id, payload, "u1")

DeleteAsset ==
    \E asset_id \in AssetIds \cup {GhostAssetId}, uid \in UserIds :
        delete_asset(asset_id, uid)

\* Bodies of POST /api/assets/bulk-delete.
AssetBulkIdsIn ==
    {<<>>, <<"">>, <<GhostAssetId>>}
    \cup {<<a>> : a \in AssetIds}
    \cup {<<a, b>> : a \in AssetIds, b \in AssetIds}

BulkDeleteAssets ==
    \E ids \in AssetBulkIdsIn, uid \in UserIds :
        bulk_delete_assets(ids, uid)

\* Assets registered by the admin with a serial number, or with none.
SerialNumberIn == {<<>>, Lower("sn1"), Lower("sn2")}

CreateSerialAsset ==
    \E asset_id \in AssetIds, serial_number \in SerialNumberIn :
        create_asset(asset_id, [DefaultAssetIn EXCEPT !.serialNumber = serial_number], "u1")

\* The ids of maintenance records.
RecordIds == {"m1", "m2"}

\* The text of a QR code without a class, of no asset.
NoQr == [prefix |-> "", year_segment |-> <<>>, consecutive |-> <<>>, qr_class |-> <<>>]

\* The QR codes a record is sent with: the code of the first tag and of the
\* second tag as the labels print them, the first in lower case, the first
\* with a blank after it, and a text that is not the code of an asset.
QrIn ==
    {[prefix |-> "TDC-", year_segment |-> <<9, 9>>, consecutive |-> <<0, 0, 0, 1>>,
      qr_class |-> Upper("a")],
     [prefix |-> "TDC-", year_segment |-> <<9, 9>>, consecutive |-> <<0, 0, 0, 2>>,
      qr_class |-> Upper("a")],
     [prefix |-> "tdc-", year_segment |-> <<9, 9>>, consecutive |-> <<0, 0, 0, 1>>,
      qr_class |-> Lower("a")],
     [prefix |-> "TDC-", year_segment |-> <<9, 9>>, consecutive |-> <<0, 0, 0, 1>>,
      qr_class |-> Upper("a") \o <<Space>>],
     NoQr}

MaintenanceDateIn ==
    {[numbers |-> <<2099, 1, 15>>, format |-> "%Y-%m-%d"],
     [numbers |-> <<2099, 1, 15>>, format |-> "%d/%m/%Y"]}

\* Bodies of POST /api/maintenance-records.
MaintenanceRecordIn ==
    [maintenanceDate : MaintenanceDateIn,
     qr : QrIn,
     serialNumber : {<<>>, Lower("sn1"), Upper("sn2"), Padded(Upper("sn1")), Upper("sn3")},
     maintenanceType : {Upper("p"), Lower("c"), Upper("x")}]

\* Records of the developer: of the first code in lower case, of no code and
\* of a date that is not a date.
CreateMaintenanceRecord ==
    \E record_id \in RecordIds, uid \in {"u2", "u3"},
       payload \in {p \in MaintenanceRecordIn :
                       /\ p.maintenanceType = Lower("c")
                       /\ p.qr \in {NoQr, [prefix |-> "tdc-", year_segment |-> <<9, 9>>,
                                           consecutive |-> <<0, 0, 0, 1>>,
                                           qr_class |-> Lower("a")]}
                       /\ p.serialNumber \in {<<>>, Upper("sn2")}} :
        create_maintenance_record(record_id, payload, uid)

\* Two create_asset requests with the default body, each in two steps.
BeginCreateAsset ==
    \E request_id \in RequestIds, asset_id \in AssetIds, payload \in AssetIn, uid \in UserIds :
        begin_create_asset(request_id, asset_id, payload, uid)

CommitCreateAsset ==
    \E request_id \in RequestIds : commit_create_asset(request_id)

\* New Year.
AdvanceYear ==
    /\ \E instant \in YearInstants :
          /\ instant > now
          /\ now' = instant
    /\ UNCHANGED <<users, tickets, ticket_events, ticket_ids_issued, asset_store, audit_store, maintenance_records,
                   admin_requests>>

\* The runs that follow the accounts are taken with the audit session failing,
\* which leaves the audit table as it is.
AuditDown == {"commit_raises"}

UpdateUser ==
    \E user_id \in UserIds, role \in UserRole, admin_id \in UserIds, outcome \in AuditDown :
        update_user(user_id, role, admin_id, outcome)

DeleteUser ==
    \E user_id \in UserIds, admin_id \in UserIds, outcome \in AuditDown :
        delete_user(user_id, admin_id, outcome)

RoleNameIn == {Lower("admin"), Padded(Upper("developer")), Mixed("user"), Lower("owner")}
ModuleNameIn == {Lower("admin"), Padded(Upper("assets")), Lower("billing")}

\* An administrator sets whether the developers and the users have the admin
\* module; the audit session commits or fails.
PatchModuleAccess ==
    /\ Len(audit_logs) < MaxEvents
    /\ \E role_name \in RoleNameIn \ {Lower("admin")}, enabled \in BOOLEAN,
          admin_id \in UserIds, outcome \in AuditOutcomes :
          patch_module_access(role_name, Lower("admin"), enabled, admin_id, outcome)

\* The administrator makes the third account a developer; the audit session
\* commits or fails.
AuditedUpdateUser ==
    /\ Len(audit_logs) < MaxEvents
    /\ \E outcome \in AuditOutcomes : update_user("u3", "developer", "u1", outcome)

AdvanceClock ==
    /\ \E instant \in ClockInstants :
          /\ instant > now
          /\ now' = instant
    /\ UNCHANGED <<users, tickets, ticket_events, ticket_ids_issued, asset_store, audit_store, maintenance_records,
                   admin_requests>>

(***************************************************************************)
(* Specifications.                                                         *)
(*   Spec        ticket lifecycle against the clock                        *)
(*   SpecLifecycle  status changes of a ticket, the clock standing still   *)
(*   SpecJournal ticket requests of every kind and their journal           *)
(*   SpecAdmin   assignment requests interleaved with user administration  *)
(*   SpecDelete  tickets filed, taken and deleted by their requesters      *)
(*   SpecAssets  assets created, updated and deleted, one request at a     *)
(*               time, across a change of year                             *)
(*   SpecHistory  one ticket and the assets, with their two journals       *)
(*   SpecAssetRace  create_asset requests that overlap                     *)
(***************************************************************************)
Next ==
    \/ CreateTicket
    \/ PatchStatus
    \/ AssignSelf
    \/ AdvanceClock

Spec == Init /\ [][Next]_vars

NextLifecycle ==
    \/ CreateTicket
    \/ PatchStatus
    \/ AssignSelf

SpecLifecycle == Init /\ [][NextLifecycle]_vars

NextJournal ==
    \/ CreateDefaultTicket
    \/ PatchTicket
    \/ AssignTicket

SpecJournal == Init /\ [][NextJournal]_vars

NextAdmin ==
    \/ CreateDefaultTicket
    \/ PatchAssignee
    \/ AssignByTeam
    \/ UpdateUser
    \/ DeleteUser

SpecAdmin == Init /\ [][NextAdmin]_vars

\* The audit payload of update_person: the fields of the person that changed,
\* each with its text before and after, and whether a token was issued.
PersonFields == <<"name", "title", "department", "mobile", "notes", "email">>
MaxFields == 4
TextLengths == {0, 1, 499, 500, 501, 10000}
PersonTexts ==
    {chars("x", n) : n \in TextLengths}
        \cup {escaped_chars("\"", n) : n \in TextLengths \ {0}}
        \cup {escaped_chars("\\", n) \o chars("x", 501 - n) : n \in {1, 27, 28}}

person_audit_payload(fields, before, after) ==
    Dict(<<Item(ascii("changed"),
                Dict([i \in 1..fields |->
                        Item(ascii(PersonFields[i]),
                             Dict(<<Item(ascii("before"), Str(before)),
                                    Item(ascii("after"), Str(after))>>))])),
           Item(ascii("tokenIssued"), Bool(FALSE))>>)

AuditPayloads ==
    {person_audit_payload(fields, before, after) :
        fields \in 1..MaxFields, before \in PersonTexts, after \in PersonTexts}

InitSanitize ==
    /\ users = [u \in UserIds |->
                   CASE u = "u1" -> "admin" [] u = "u2" -> "developer" [] OTHER -> "user"]
    /\ tickets = [t \in TicketIds |-> NoTicket]
    /\ ticket_events = <<>>
    /\ ticket_ids_issued = {}
    /\ now = 0
    /\ assets = [a \in AssetIds |-> NoAsset]
    /\ asset_events = <<>>
    /\ asset_requests = [r \in RequestIds |-> NoRequest]
    /\ role_module_access = [role \in UserRole |-> [module \in MODULE_NAMES |-> Unset]]
    /\ audit_logs = <<>>
    /\ audit_payload \in AuditPayloads
    /\ maintenance_records = <<>>
    /\ audit_archive = <<>>
    /\ cleanup_request = NoRequest
    /\ audit_listing = NoRequest

\* The administrator's change of a person is audited, once; the audit session
\* commits or fails.
WriteAuditLog ==
    /\ audit_logs = <<>>
    /\ \E outcome \in AuditOutcomes :
          audit_logs' = write_audit_log("u1", "admin.person.update", "person", "p1",
                                        "success", audit_payload, outcome).audit_logs
    /\ UNCHANGED <<users, tickets, ticket_events, ticket_ids_issued, now, asset_store,
                   role_module_access, audit_payload, maintenance_records,
                   admin_requests>>

NextSanitize == WriteAuditLog

SpecSanitize == InitSanitize /\ [][NextSanitize]_vars

NextResponse ==
    \/ CreateDefaultTicket
    \/ PatchStatus
    \/ AdvanceClock

SpecResponse == Init /\ [][NextResponse]_vars

\* The tags a table of assets can hold: tags of the generator, a tag of five
\* digits, a tag in lower case, a tag of three digits and a tag of another
\* scheme.
TagSamples ==
    {[prefix |-> "TDC-", digits |-> <<0, 0, 0, 1>>],
     [prefix |-> "TDC-", digits |-> <<0, 0, 0, 7>>],
     [prefix |-> "TDC-", digits |-> <<9, 9, 9, 9>>],
     [prefix |-> "TDC-", digits |-> <<1, 0, 0, 0, 0>>],
     [prefix |-> "tdc-", digits |-> <<0, 0, 0, 9>>],
     [prefix |-> "TDC-", digits |-> <<0, 0, 7>>],
     [prefix |-> "AST-", digits |-> <<0, 0, 4, 2>>]}

\* A stored row of the assets table with the tag, as create_asset writes the
\* other columns for the default body.
stored_asset(tag) ==
    [create_asset_session("a1", DefaultAssetIn, "u1", {}, 0).obj
        EXCEPT !.asset_tag = tag,
               !.qr_code = [prefix |-> "TDC-",
                            year_segment |-> zero_pad(decimal(StartYear % 100), 2),
                            consecutive |-> zero_pad(tag.digits, 4),
                            qr_class |-> Upper("a")]]

\* The tables before the first request: each asset row is absent or holds one
\* of the tags.
InitTags ==
    /\ users = [u \in UserIds |->
                   CASE u = "u1" -> "admin" [] u = "u2" -> "developer" [] OTHER -> "user"]
    /\ tickets = [t \in TicketIds |-> NoTicket]
    /\ ticket_events = <<>>
    /\ ticket_ids_issued = {}
    /\ now = 0
    /\ assets \in [AssetIds -> {NoAsset} \cup {stored_asset(tag) : tag \in TagSamples}]
    /\ asset_events = <<>>
    /\ asset_requests = [r \in RequestIds |-> NoRequest]
    /\ role_module_access = [role \in UserRole |-> [module \in MODULE_NAMES |-> Unset]]
    /\ audit_logs = <<>>
    /\ audit_payload = [kind |-> "dict", items |-> <<>>]
    /\ maintenance_records = <<>>
    /\ audit_archive = <<>>
    /\ cleanup_request = NoRequest
    /\ audit_listing = NoRequest

NextTags ==
    \/ CreateAsset
    \/ DeleteAsset

SpecTags == InitTags /\ [][NextTags]_vars

NextMaintenance ==
    \/ CreateSerialAsset
    \/ CreateMaintenanceRecord

SpecMaintenance == Init /\ [][NextMaintenance]_vars

\* The rows written before the run expire after one day, after two days or
\* after 400 days: fewer than a batch or more than two batches of the first,
\* none or a batch of the second, two of the third.
ArchiveInstants == {Day, 2 * Day, 400 * Day}

AuditArchives ==
    {[t \in ArchiveInstants |->
         CASE t = Day -> first [] t = 2 * Day -> second [] OTHER -> 2] :
        first \in {999, 2001}, second \in {0, 1000}}

InitCleanup ==
    /\ users = [u \in UserIds |->
                   CASE u = "u1" -> "admin" [] u = "u2" -> "developer" [] OTHER -> "user"]
    /\ tickets = [t \in TicketIds |-> NoTicket]
    /\ ticket_events = <<>>
    /\ ticket_ids_issued = {}
    /\ now = 0
    /\ assets = [a \in AssetIds |-> NoAsset]
    /\ asset_events = <<>>
    /\ asset_requests = [r \in RequestIds |-> NoRequest]
    /\ role_module_access = [role \in UserRole |-> [module \in MODULE_NAMES |-> Unset]]
    /\ audit_logs = <<>>
    /\ audit_payload = [kind |-> "dict", items |-> <<>>]
    /\ maintenance_records = <<>>
    /\ audit_archive \in AuditArchives
    /\ cleanup_request = NoRequest
    /\ audit_listing = NoRequest

\* The clock is read a day and a minute after the start, at the end of the
\* second day, and after 181 days.
CleanupInstants == {0, Day + 1, 2 * Day, 181 * Day}

AdvanceDays ==
    /\ \E instant \in CleanupInstants :
          /\ instant > now
          /\ now' = instant
    /\ UNCHANGED <<users, tickets, ticket_events, ticket_ids_issued, asset_store, audit_store,
                   maintenance_records, admin_requests>>

BeginCleanup ==
    /\ Len(audit_logs) < MaxEvents
    /\ \E admin_id \in UserIds : begin_cleanup_audit_logs(admin_id)

FinishCleanup ==
    \E outcome \in AuditOutcomes : finish_cleanup_audit_logs(outcome)

\* An audited change of an account by the administrator, before the cleanup
\* or between its steps.
AuditedChange ==
    /\ audit_logs = <<>>
    /\ update_user("u3", "developer", "u1", "committed")

NextCleanup ==
    \/ BeginCleanup
    \/ cleanup_batch
    \/ FinishCleanup
    \/ AuditedChange
    \/ AdvanceDays

\* The step after the loop as the request sees it: FinishCleanup is enabled
\* where this step is, and is this step of the request.
cleanup_returns ==
    /\ cleanup_request # NoRequest
    /\ cleanup_request.phase = "audit"
    /\ cleanup_request' = [cleanup_request EXCEPT !.phase = "returned"]

\* The handler of a request that has begun takes its next step.
SpecCleanup ==
    /\ InitCleanup
    /\ [][NextCleanup]_vars
    /\ WF_cleanup_request(cleanup_batch)
    /\ WF_cleanup_request(cleanup_returns)

\* Tables of four audit rows written at two instants: every way of giving
\* the instants to the ids, logins and another action by turns or logins only.
AuditTables ==
    {[i \in 1..4 |->
         [id |-> i, created_at |-> created_at[i],
          action |-> IF by_turns /\ i % 2 = 0 THEN "admin.user.update" ELSE "auth.login",
          retention_until |-> created_at[i] + AUDIT_RETENTION_DAYS * Day]] :
        created_at \in [1..4 -> {Hour, 2 * Hour}], by_turns \in BOOLEAN}

InitPages ==
    /\ users = [u \in UserIds |->
                   CASE u = "u1" -> "admin" [] u = "u2" -> "developer" [] OTHER -> "user"]
    /\ tickets = [t \in TicketIds |-> NoTicket]
    /\ ticket_events = <<>>
    /\ ticket_ids_issued = {}
    /\ now = 3 * Hour
    /\ assets = [a \in AssetIds |-> NoAsset]
    /\ asset_events = <<>>
    /\ asset_requests = [r \in RequestIds |-> NoRequest]
    /\ role_module_access = [role \in UserRole |-> [module \in MODULE_NAMES |-> Unset]]
    /\ audit_logs \in AuditTables
    /\ audit_payload = [kind |-> "dict", items |-> <<>>]
    /\ maintenance_records = <<>>
    /\ audit_archive = <<>>
    /\ cleanup_request = NoRequest
    /\ audit_listing = NoRequest

\* The limits of a request: below and above the range, and in it.
LimitIn == {0, 1, 2, 3, 4, 200, 500}

BeginAuditListing ==
    \E action \in {"None", "auth.login"}, limit \in LimitIn :
        begin_audit_listing("u1", action, limit)

ContinueAuditListing == continue_audit_listing("u1")

NextPages ==
    \/ BeginAuditListing
    \/ ContinueAuditListing

SpecPages == InitPages /\ [][NextPages]_vars

\* An administrator, or another account, sets a flag of a role and a module,
\* by names the handler accepts and by names it refuses.
PatchAnyModuleAccess ==
    \E role_name \in RoleNameIn, module_name \in ModuleNameIn, enabled \in BOOLEAN,
       admin_id \in UserIds, outcome \in AuditDown :
        patch_module_access(role_name, module_name, enabled, admin_id, outcome)

NextModules == PatchAnyModuleAccess

SpecModules == Init /\ [][NextModules]_vars

NextAudit ==
    \/ PatchModuleAccess
    \/ AuditedUpdateUser

SpecAudit == Init /\ [][NextAudit]_vars

NextDelete ==
    \/ FileTicket
    \/ TakeTicket
    \/ DeleteMyTicket
    \/ BulkDeleteMyTickets
    \/ DeleteUser

SpecDelete == Init /\ [][NextDelete]_vars

NextAssets ==
    \/ CreateAsset
    \/ UpdateAsset
    \/ DeleteAsset
    \/ BulkDeleteAssets
    \/ AdvanceYear

SpecAssets == Init /\ [][NextAssets]_vars

NextHistory ==
    \/ CreateDefaultTicket
    \/ AssignSelf
    \/ DeleteMyTicket
    \/ BulkDeleteMyTickets
    \/ CreateAsset
    \/ UpdateAsset
    \/ DeleteAsset
    \/ BulkDeleteAssets

SpecHistory == Init /\ [][NextHistory]_vars

NextAssetRace ==
    \/ BeginCreateAsset
    \/ CommitCreateAsset
    \/ DeleteAsset

SpecAssetRace == Init /\ [][NextAssetRace]_vars

(***************************************************************************)
(* Helpers of the properties.                                              *)
(***************************************************************************)
\* The users that pass require_team_tickets_access in the current state.
TeamUsers == {u \in UserIds : require_team_tickets_access(u)}

Exists(t) == tickets[t] # NoTicket

\* The journal of one ticket, in insertion order.
Journal(events, t) == SelectSeq(events, LAMBDA e : e.ticket_id = t)

(***************************************************************************)
(* C1.  A patch that names a status other than the current one is rejected *)
(* with the invalid-transition error iff the target is not in the table    *)
(* entry of the current status, whatever assignee the body carries; a body *)
(* carrying only the status is accepted iff the target is in the entry and *)
(* then stores the target; a rejected change leaves the ticket and the     *)
(* journal as they were; and in every step of the system a status that     *)
(* changes moves along a table edge.                                       *)
(***************************************************************************)
C1_PatchDecidedByTable ==
    \A t \in TicketIds : Exists(t) =>
        \A uid \in TeamUsers, p \in StatusAssigneePatchIn :
            (p.status \in TICKET_STATUS_VALUES /\ p.status # tickets[t].status) =>
                LET r == patch_ticket_result(t, p, uid)
                    edge == p.status \in TICKET_TRANSITIONS[tickets[t].status]
                IN /\ (r.code = "invalid_transition") <=> ~edge
                   /\ (p \in StatusPatchIn) => ((r.code = "ok") <=> edge)
                   /\ (r.code = "ok") => r.tickets[t].status = p.status
                   /\ (r.code # "ok") =>
                          /\ r.tickets = tickets
                          /\ r.ticket_events = ticket_events

C1_StatusMovesAlongEdges ==
    \A t \in TicketIds :
        (Exists(t) /\ tickets'[t] # NoTicket /\ tickets'[t].status # tickets[t].status) =>
            tickets'[t].status \in TICKET_TRANSITIONS[tickets[t].status]

C1_TransitionTableRespected ==
    /\ []C1_PatchDecidedByTable
    /\ [][C1_StatusMovesAlongEdges]_vars

\* A closed ticket: reached over new -> resolved -> closed, where the direct
\* patch new -> closed was refused.
C1_Witness ==
    \E t \in TicketIds :
        /\ Exists(t)
        /\ tickets[t].status = "closed"
        /\ Len(Journal(ticket_events, t)) = 3
        /\ Journal(ticket_events, t)[2].payload.previousStatus = "new"
        /\ Journal(ticket_events, t)[2].payload.status = "resolved"

\* The lifecycle fields of a ticket: status, first-responded-at, resolved-at,
\* closed-at, fixed-by.
Lifecycle(ticket) ==
    <<ticket.status, ticket.first_responded_at, ticket.resolved_at,
      ticket.closed_at, ticket.fixed_by_id>>

\* The step appended one event to the journal, of this type, for this ticket.
Appended(t, event_type) ==
    /\ Len(ticket_events') = Len(ticket_events) + 1
    /\ SubSeq(ticket_events', 1, Len(ticket_events)) = ticket_events
    /\ ticket_events'[Len(ticket_events')].ticket_id = t
    /\ ticket_events'[Len(ticket_events')].event_type = event_type

LastEvent == ticket_events'[Len(ticket_events')]

(***************************************************************************)
(* C2.  A patch whose status is the current status of the ticket, or that  *)
(* carries no status, succeeds and keeps status, first-responded-at,       *)
(* resolved-at, closed-at and fixed-by as they were.                       *)
(***************************************************************************)
C2_SelfPatchAccepted ==
    \A t \in TicketIds : Exists(t) =>
        \A uid \in TeamUsers, p \in StatusPatchIn :
            (p.status = None \/ p.status = tickets[t].status) =>
                patch_ticket_result(t, p, uid).code = "ok"

C2_SelfPatchStep ==
    \A t \in TicketIds :
        (/\ Exists(t)
         /\ Appended(t, "updated")
         /\ LastEvent.payload.previousStatus = LastEvent.payload.status) =>
            Lifecycle(tickets'[t]) = Lifecycle(tickets[t])

C2_SelfTransitionIsNoOp ==
    /\ []C2_SelfPatchAccepted
    /\ [][C2_SelfPatchStep]_vars

(***************************************************************************)
(* C3.  Each ticket's firstResponseDueAt and resolutionDueAt equal its     *)
(* recorded createdAt plus the SLA hours of its priority, and no step      *)
(* taken once the ticket exists changes them.                              *)
(***************************************************************************)
C3_DeadlinesFromCreatedAt ==
    \A t \in TicketIds : Exists(t) =>
        /\ tickets[t].first_response_due_at =
              tickets[t].created_at
                + TICKET_FIRST_RESPONSE_SLA_HOURS[tickets[t].priority] * Hour
        /\ tickets[t].resolution_due_at =
              tickets[t].created_at
                + TICKET_RESOLUTION_SLA_HOURS[tickets[t].priority] * Hour

C3_DeadlinesKept ==
    \A t \in TicketIds :
        (Exists(t) /\ tickets'[t] # NoTicket) =>
            /\ tickets'[t].first_response_due_at = tickets[t].first_response_due_at
            /\ tickets'[t].resolution_due_at = tickets[t].resolution_due_at

C3_DeadlinesFixedAtCreation ==
    /\ []C3_DeadlinesFromCreatedAt
    /\ [][C3_DeadlinesKept]_vars

(***************************************************************************)
(* C4.  The SLA state read at any clock value.                             *)
(***************************************************************************)
\* The clock values a read is tried at: the instants of the runs, the current
\* clock, and the minutes around the two thresholds of the ticket.
ProbeClocks(ticket) ==
    ClockInstants \cup {now}
    \cup {ticket.resolution_due_at + d : d \in {-1, 0, 1}}
    \cup {ticket.resolution_due_at - 2 * Hour + d : d \in {-1, 0, 1}}

Breached(ticket, clock) ==
    /\ ticket.status \notin {"resolved", "closed"}
    /\ ticket.resolution_due_at <= clock

\* The claim as stated: breached iff the status is not resolved or closed and
\* resolutionDueAt <= now; at_risk iff not breached and
\* resolutionDueAt <= now + 2h.
C4_SlaStateAsStated ==
    \A t \in TicketIds : Exists(t) =>
        \A clock \in ProbeClocks(tickets[t]) :
            LET state == compute_ticket_sla_state(tickets[t], clock)
            IN /\ (state = "breached") <=> Breached(tickets[t], clock)
               /\ (state = "at_risk") <=>
                     (/\ state # "breached"
                      /\ tickets[t].resolution_due_at <= clock + 2 * Hour)

\* Amended: at_risk iff the status is not resolved or closed, the state is not
\* breached and resolutionDueAt <= now + 2h; completed iff the status is
\* resolved or closed.
C4_SlaState ==
    \A t \in TicketIds : Exists(t) =>
        \A clock \in ProbeClocks(tickets[t]) :
            LET state == compute_ticket_sla_state(tickets[t], clock)
            IN /\ (state = "breached") <=> Breached(tickets[t], clock)
               /\ (state = "at_risk") <=>
                     (/\ tickets[t].status \notin {"resolved", "closed"}
                      /\ state # "breached"
                      /\ tickets[t].resolution_due_at <= clock + 2 * Hour)
               /\ (state = "completed") <=> tickets[t].status \in {"resolved", "closed"}

\* A resolved ticket read within two hours of its deadline, and an open one
\* read at risk.
C4_Witness ==
    \E t \in TicketIds :
        /\ Exists(t)
        /\ tickets[t].status = "resolved"
        /\ tickets[t].resolution_due_at <= now + 2 * Hour
        /\ tickets[t].resolution_due_at > now
        /\ ticket_to_out(tickets[t]).slaState = "completed"

(***************************************************************************)
(* C5.  While a ticket's status stays outside {resolved, closed} the SLA   *)
(* state read from it never moves backward in the order on_track, at_risk, *)
(* breached; a critical ticket filed at T0 (the clock value its deadlines   *)
(* were computed from, or its created_at) reads                            *)
(* at_risk at T0+3h1m and breached at T0+4h1m; a ticket whose status is    *)
(* resolved or closed reads completed at every clock value; and the state  *)
(* read is the function of the stored ticket and of the clock at the read. *)
(***************************************************************************)
SlaRank(state) ==
    CASE state = "on_track" -> 0 [] state = "at_risk" -> 1
      [] state = "breached" -> 2 [] OTHER -> 3

C5_NeverBackward ==
    \A t \in TicketIds :
        (/\ Exists(t) /\ tickets'[t] # NoTicket
         /\ tickets[t].status \notin {"resolved", "closed"}
         /\ tickets'[t].status \notin {"resolved", "closed"}) =>
            SlaRank(ticket_to_out(tickets[t]).slaState)
                <= SlaRank(ticket_to_out(tickets[t])'.slaState)

C5_Reads ==
    \A t \in TicketIds : Exists(t) =>
        LET T0 == tickets[t].resolution_due_at
                    - TICKET_RESOLUTION_SLA_HOURS[tickets[t].priority] * Hour
        IN /\ (/\ tickets[t].priority = "critical"
               /\ tickets[t].status \notin {"resolved", "closed"}) =>
                  /\ compute_ticket_sla_state(tickets[t], T0 + 3 * Hour + 1) = "at_risk"
                  /\ compute_ticket_sla_state(tickets[t], T0 + 4 * Hour + 1) = "breached"
                  /\ (now = T0 + 3 * Hour + 1) =>
                        ticket_to_out(tickets[t]).slaState = "at_risk"
                  /\ (now = T0 + 4 * Hour + 1) =>
                        ticket_to_out(tickets[t]).slaState = "breached"
           /\ (/\ tickets[t].priority = "critical"
               /\ tickets[t].status \notin {"resolved", "closed"}) =>
                  /\ compute_ticket_sla_state(tickets[t],
                         tickets[t].created_at + 3 * Hour + 1) = "at_risk"
                  /\ compute_ticket_sla_state(tickets[t],
                         tickets[t].created_at + 4 * Hour + 1) = "breached"
           /\ (tickets[t].status \in {"resolved", "closed"}) =>
                  \A clock \in ProbeClocks(tickets[t]) :
                      compute_ticket_sla_state(tickets[t], clock) = "completed"
           /\ "slaState" \notin DOMAIN tickets[t]

C5_SlaStateMovesForward ==
    /\ []C5_Reads
    /\ [][C5_NeverBackward]_vars

\* A critical ticket still open at T0+4h1m, read as breached.
C5_Witness ==
    \E t \in TicketIds :
        /\ Exists(t)
        /\ tickets[t].priority = "critical"
        /\ tickets[t].status \in TICKET_ACTIVE_STATUSES
        /\ now = tickets[t].resolution_due_at + 1
        /\ ticket_to_out(tickets[t]).slaState = "breached"

(***************************************************************************)
(* C6.  The assignment rule of assign_ticket and of the assigneeId field   *)
(* of patch_ticket.                                                        *)
(***************************************************************************)
\* The request that names `requested` (None: unassign) through either route:
\* its response code and the assignee stored after it.
AssignOutcomes(t, uid, requested) ==
    { [code |-> r.code, assignee_id |-> r.tickets[t].assignee_id] :
        r \in { assign_ticket_result(t, [assigneeId |-> requested], uid),
                patch_ticket_result(t,
                    [status |-> None,
                     assigneeId |-> IF requested = None THEN "" ELSE requested,
                     resolution |-> "", processNotes |-> None,
                     evidence |-> NoEvidence], uid) } }

AssignTargets == UserIds \cup {GhostId}

C6_DeveloperRule(t, uid) ==
    /\ \A target \in AssignTargets \ {uid} :
          \A x \in AssignOutcomes(t, uid, target) : x.code = "forbidden"
    /\ \A x \in AssignOutcomes(t, uid, uid) :
          x.code = "ok" /\ x.assignee_id = uid
    /\ \A x \in AssignOutcomes(t, uid, None) :
          x.code = "ok" /\ x.assignee_id = None

C6_AdminRule(t, uid) ==
    \A target \in UserIds :
        users[target] \in {"admin", "developer"} =>
            \A x \in AssignOutcomes(t, uid, target) :
                x.code = "ok" /\ x.assignee_id = target

C6_RejectedKeepsAssignee(t, uid) ==
    \A target \in AssignTargets \cup {None} :
        \A x \in AssignOutcomes(t, uid, target) :
            x.code # "ok" => x.assignee_id = tickets[t].assignee_id

C7_AssigneeIsTeamMember ==
    \A t \in TicketIds : Exists(t) =>
        \/ tickets[t].assignee_id = None
        \/ /\ tickets[t].assignee_id \in UserIds
           /\ users[tickets[t].assignee_id] \in {"admin", "developer"}

(***************************************************************************)
(* C8.  Every accepted create_ticket, patch_ticket and assign_ticket adds  *)
(* exactly one event of its type to the ticket's journal, in the commit    *)
(* that stores the ticket, and a refused one adds none; so the status and  *)
(* the assigneeId of the latest event that carries them are the ticket's.  *)
(***************************************************************************)
Last(seq) == seq[Len(seq)]

\* The events of a journal whose payload carries the key.
Carrying(journal, key) == SelectSeq(journal, LAMBDA e : key \in DOMAIN e.payload)

C8_OneEventPerAcceptedRequest ==
    \A t \in TicketIds :
        /\ ~Exists(t) =>
              \A priority \in TICKET_PRIORITY_VALUES, uid \in UserIds :
                  LET s == create_ticket_session(t, priority, uid, now)
                  IN /\ Len(s.events) = 1
                     /\ s.events[1].ticket_id = t
                     /\ s.events[1].event_type = "created"
        /\ Exists(t) =>
              \A uid \in TeamUsers :
                  /\ \A p \in JournalPatchIn :
                        LET r == patch_ticket_result(t, p, uid)
                        IN IF r.code = "ok"
                           THEN /\ Len(r.ticket_events) = Len(ticket_events) + 1
                                /\ SubSeq(r.ticket_events, 1, Len(ticket_events)) = ticket_events
                                /\ Last(r.ticket_events).ticket_id = t
                                /\ Last(r.ticket_events).event_type = "updated"
                           ELSE r.ticket_events = ticket_events /\ r.tickets = tickets
                  /\ \A p \in TicketAssignIn :
                        LET r == assign_ticket_result(t, p, uid)
                        IN IF r.code = "ok"
                           THEN /\ Len(r.ticket_events) = Len(ticket_events) + 1
                                /\ SubSeq(r.ticket_events, 1, Len(ticket_events)) = ticket_events
                                /\ Last(r.ticket_events).ticket_id = t
                                /\ Last(r.ticket_events).event_type = "assigned"
                           ELSE r.ticket_events = ticket_events /\ r.tickets = tickets

C8_JournalAgreesWithTicket ==
    \A t \in TicketIds : Exists(t) =>
        LET journal == Journal(ticket_events, t)
            with_status == Carrying(journal, "status")
            with_assignee == Carrying(journal, "assigneeId")
        IN /\ Len(journal) >= 1
           /\ journal[1].event_type = "created"
           /\ Len(with_status) >= 1
           /\ Last(with_status).payload.status = tickets[t].status
           /\ tickets[t].assignee_id =
                 IF Len(with_assignee) >= 1 THEN Last(with_assignee).payload.assigneeId
                 ELSE None

\* The ticket and its journal change together, by one event at a time.
C8_CommittedTogether ==
    /\ tickets' # tickets =>
          /\ Len(ticket_events') = Len(ticket_events) + 1
          /\ SubSeq(ticket_events', 1, Len(ticket_events)) = ticket_events
    /\ ticket_events' # ticket_events =>
          /\ Len(ticket_events') = Len(ticket_events) + 1
          /\ SubSeq(ticket_events', 1, Len(ticket_events)) = ticket_events

C8_JournalConsistent ==
    /\ []C8_OneEventPerAcceptedRequest
    /\ []C8_JournalAgreesWithTicket
    /\ [][C8_CommittedTogether]_vars

\* A ticket patched to resolved with an assignee and then reassigned: the
\* latest event carries no status.
C8_Witness ==
    \E t \in TicketIds :
        /\ Exists(t)
        /\ Len(Journal(ticket_events, t)) = 3
        /\ Journal(ticket_events, t)[2].event_type = "updated"
        /\ Journal(ticket_events, t)[2].payload.assigneeId = "u1"
        /\ Journal(ticket_events, t)[3].event_type = "assigned"
        /\ tickets[t].status = "resolved"
        /\ tickets[t].assignee_id = "u2"

(***************************************************************************)
(* C9.  Folding the payloads of a ticket's events, in journal order, onto  *)
(* an empty record gives the ticket's status, assigneeId and resolution.   *)
(***************************************************************************)
\* dict.update.
Update(record, payload) ==
    [k \in DOMAIN record \cup DOMAIN payload |->
        IF k \in DOMAIN payload THEN payload[k] ELSE record[k]]

RECURSIVE Replay(_, _)
Replay(journal, record) ==
    IF journal = <<>> THEN record
    ELSE Replay(Tail(journal), Update(record, Head(journal).payload))

\* dict.get(key, default).
Get(record, key, default) == IF key \in DOMAIN record THEN record[key] ELSE default

C9_ReplayReconstructsTicket ==
    \A t \in TicketIds : Exists(t) =>
        LET replayed == Replay(Journal(ticket_events, t), <<>>)
        IN /\ Get(replayed, "status", None) = tickets[t].status
           /\ Get(replayed, "assigneeId", None) = tickets[t].assignee_id
           /\ Get(replayed, "resolution", "") = tickets[t].resolution

(***************************************************************************)
(* C10.  A patch_ticket that fails after the handler has assigned to the   *)
(* in-memory ticket (forbidden assignment, assignee not found, assignee of *)
(* role user, evidence image that is no data:image/ URL) commits nothing:  *)
(* the stored ticket and the journal are as before the request.            *)
(***************************************************************************)
LateErrors == {"forbidden", "assignee_not_found", "invalid_assignee", "invalid_evidence"}

\* Bodies that change what they can: a status, an assignee, resolution text,
\* process notes, evidence.
PartialPatchIn ==
    [status : {None} \cup TICKET_STATUS_VALUES,
     assigneeId : {None, "", GhostId} \cup UserIds,
     resolution : {"fixed"},
     processNotes : {"notes"},
     evidence : EvidenceInputs]

C10_NoPartialMutation ==
    \A t \in TicketIds : Exists(t) =>
        \A uid \in TeamUsers, p \in PartialPatchIn :
            LET r == patch_ticket_result(t, p, uid)
            IN /\ r.code \in LateErrors => (r.tickets = tickets /\ r.ticket_events = ticket_events)
               /\ r.code \in LateErrors \cup {"ok", "invalid_transition"}

\* A request that fails on its evidence after the in-memory ticket took the
\* new status, resolution and assignee, from a ticket that has been patched.
C10_Witness ==
    \E t \in TicketIds :
        /\ Exists(t)
        /\ tickets[t].status = "in_progress"
        /\ tickets[t].resolution = ""
        /\ LET p == [status |-> "resolved", assigneeId |-> "u2", resolution |-> "fixed",
                     processNotes |-> "notes",
                     evidence |-> [given |-> TRUE,
                                   items |-> << [id |-> "e1", imageData |-> BadImage] >>]]
               s == patch_ticket_session(t, tickets[t], p, "u1")
           IN /\ s.code = "invalid_evidence"
              /\ s.obj.status = "resolved"
              /\ s.obj.resolution = "fixed"
              /\ s.obj.assignee_id = "u2"
              /\ tickets[t].assignee_id # "u2"
              /\ patch_ticket_result(t, p, "u1").tickets = tickets

(***************************************************************************)
(* C11.  A ticket leaves the store only through delete_my_ticket or        *)
(* bulk_delete_my_tickets called by its requester: for any other caller    *)
(* the first answers not found and the second deletes nothing.  The        *)
(* deletion removes every event of the ticket in the same commit, every    *)
(* stored event names a stored ticket, and the other tickets and their     *)
(* events stay as they were.                                               *)
(***************************************************************************)
\* Nothing but the tickets of the set and their events differs in the result.
OthersUntouched(r, ticket_ids) ==
    /\ \A t \in TicketIds \ ticket_ids : r.tickets[t] = tickets[t]
    /\ r.ticket_events = SelectSeq(ticket_events, LAMBDA e : e.ticket_id \notin ticket_ids)

C11_EventsNameStoredTickets ==
    \A i \in 1..Len(ticket_events) :
        /\ ticket_events[i].ticket_id \in TicketIds
        /\ Exists(ticket_events[i].ticket_id)

C11_DeleteByRequesterOnly ==
    \A uid \in {u \in UserIds : require_tickets_access(u)} :
        /\ \A t \in TicketIds \cup {GhostTicketId} :
              LET r == delete_my_ticket_result(t, uid)
                  mine == t \in TicketIds /\ Exists(t) /\ tickets[t].requester_id = uid
              IN IF mine
                 THEN /\ r.code = "ok"
                      /\ r.tickets[t] = NoTicket
                      /\ Journal(r.ticket_events, t) = <<>>
                      /\ OthersUntouched(r, {t})
                 ELSE /\ r.code = "not_found"
                      /\ r.tickets = tickets
                      /\ r.ticket_events = ticket_events
        /\ \A ids \in BulkIdsIn :
              LET r == bulk_delete_my_tickets_result(ids, uid)
                  mine == {t \in TicketIds :
                              /\ \E i \in 1..Len(ids) : ids[i] = t
                              /\ Exists(t)
                              /\ tickets[t].requester_id = uid}
              IN /\ r.deleted = Cardinality(mine)
                 /\ \A t \in mine :
                       r.tickets[t] = NoTicket /\ Journal(r.ticket_events, t) = <<>>
                 /\ OthersUntouched(r, mine)

\* A step that removes tickets is what a bulk delete by their requester gives.
C11_RemovedByRequester ==
    LET removed == {t \in TicketIds : Exists(t) /\ tickets'[t] = NoTicket}
    IN removed # {} =>
          \E uid \in UserIds, ids \in BulkIdsIn :
              /\ \A t \in removed : tickets[t].requester_id = uid
              /\ bulk_delete_my_tickets_result(ids, uid).tickets = tickets'
              /\ bulk_delete_my_tickets_result(ids, uid).ticket_events = ticket_events'
              /\ users' = users

C11_OwnerDeletePurgesJournal ==
    /\ []C11_EventsNameStoredTickets
    /\ []C11_DeleteByRequesterOnly
    /\ [][C11_RemovedByRequester]_vars

\* One ticket of two was deleted by its requester; the other, filed by someone
\* else and taken by the developer, is there with its two events.
C11_Witness ==
    /\ ticket_ids_issued = TicketIds
    /\ \E t \in TicketIds, o \in TicketIds :
          /\ ~Exists(t)
          /\ Exists(o)
          /\ tickets[o].assignee_id = "u2"
          /\ Len(Journal(ticket_events, o)) = 2
          /\ Len(ticket_events) = 2

(***************************************************************************)
(* C12.  list_ticket_events returns the events of a ticket in the order in *)
(* which they were appended and list_asset_history those of an asset in    *)
(* the reverse of that order, the same list on every read, also when       *)
(* events of the entity carry equal created_at values.                     *)
(***************************************************************************)
\* The journal of one asset, in insertion order.
AssetJournal(events, a) == SelectSeq(events, LAMBDA e : e.asset_id = a)

Reverse(seq) == [i \in 1..Len(seq) |-> seq[Len(seq) + 1 - i]]

AssetExists(a) == assets[a] # NoAsset

C12_TicketEventsInAppendOrder ==
    \A t \in TicketIds : Exists(t) =>
        list_ticket_events_results(t) = {Journal(ticket_events, t)}

C12_AssetHistoryInReverseOrder ==
    \A a \in AssetIds : AssetExists(a) =>
        list_asset_history_results(a) = {Reverse(AssetJournal(asset_events, a))}

C12_HistoryInAppendOrder ==
    /\ C12_TicketEventsInAppendOrder
    /\ C12_AssetHistoryInReverseOrder

(***************************************************************************)
(* C13.  The journals are append-only.  While a ticket exists, its journal *)
(* in a later state begins with its journal in an earlier state; the       *)
(* journal of an asset does so in all states.  No request edits, reorders  *)
(* or removes a single event: events leave the store only all together,    *)
(* with the deletion of the ticket that owns them.                         *)
(***************************************************************************)
IsPrefix(earlier, later) ==
    /\ Len(earlier) <= Len(later)
    /\ SubSeq(later, 1, Len(earlier)) = earlier

\* What a request may do to the two journals, from the store as it is to the
\* tickets and events it leaves.
GrowsOnly(tickets_after, ticket_events_after, asset_events_after) ==
    /\ \A t \in TicketIds :
          \/ IsPrefix(Journal(ticket_events, t), Journal(ticket_events_after, t))
          \/ /\ Exists(t)
             /\ tickets_after[t] = NoTicket
             /\ Journal(ticket_events_after, t) = <<>>
    /\ \A a \in AssetIds \cup {GhostAssetId} :
          IsPrefix(AssetJournal(asset_events, a), AssetJournal(asset_events_after, a))

C13_EveryRequestGrowsOnly ==
    /\ \A uid \in TeamUsers, t \in TicketIds, p \in AssigneePatchIn :
          LET r == patch_ticket_result(t, p, uid)
          IN GrowsOnly(r.tickets, r.ticket_events, asset_events)
    /\ \A uid \in TeamUsers, t \in TicketIds, p \in TicketAssignIn :
          LET r == assign_ticket_result(t, p, uid)
          IN GrowsOnly(r.tickets, r.ticket_events, asset_events)
    /\ \A uid \in UserIds, t \in TicketIds \cup {GhostTicketId} :
          LET r == delete_my_ticket_result(t, uid)
          IN GrowsOnly(r.tickets, r.ticket_events, asset_events)
    /\ \A uid \in UserIds, ids \in BulkIdsIn :
          LET r == bulk_delete_my_tickets_result(ids, uid)
          IN GrowsOnly(r.tickets, r.ticket_events, asset_events)
    /\ \A uid \in UserIds, a \in AssetIds \cup {GhostAssetId}, p \in AssetIn :
          LET r == update_asset_result(a, p, uid)
          IN GrowsOnly(tickets, ticket_events, r.asset_events)
    /\ \A uid \in UserIds, a \in AssetIds \cup {GhostAssetId} :
          LET r == delete_asset_result(a, uid)
          IN GrowsOnly(tickets, ticket_events, r.asset_events)
    /\ \A uid \in UserIds, ids \in AssetBulkIdsIn :
          \A r \in bulk_delete_assets_results(ids, uid) :
              GrowsOnly(tickets, ticket_events, r.asset_events)

C13_StepGrowsOnly == GrowsOnly(tickets', ticket_events', asset_events')

C13_JournalsAppendOnly ==
    /\ []C13_EveryRequestGrowsOnly
    /\ [][C13_StepGrowsOnly]_vars

\* The ticket was deleted and its two events with it; the asset was deleted
\* and its events, the last of them "deleted", are all there.
C13_Witness ==
    /\ ticket_ids_issued = {"t1"}
    /\ ~Exists("t1")
    /\ ticket_events = <<>>
    /\ \E a \in AssetIds :
          /\ ~AssetExists(a)
          /\ Len(AssetJournal(asset_events, a)) = 3
          /\ AssetJournal(asset_events, a)[2].event_type = "updated"
          /\ AssetJournal(asset_events, a)[3].event_type = "deleted"

(***************************************************************************)
(* C14.  Over any sequence of asset creations, updates and deletions, the  *)
(* number of every newly allocated tag is greater than the number of every *)
(* tag allocated before it, so no tag is issued twice.                     *)
(***************************************************************************)
\* The tags in the order of their allocation: those of the "created" events,
\* which no request removes.
AllocatedTags ==
    LET created == SelectSeq(asset_events, LAMBDA e : e.event_type = "created")
    IN [i \in 1..Len(created) |-> created[i].payload.assetTag]

C14_TagsStrictlyIncreasing ==
    \A i, j \in 1..Len(AllocatedTags) :
        i < j => int(AllocatedTags[j].digits) > int(AllocatedTags[i].digits)

(***************************************************************************)
(* C15.  create_asset scans the stored tags and inserts with no guard and  *)
(* no uniqueness constraint on the tag: a scan made while another request  *)
(* is between its scan and its commit computes the tag from the committed  *)
(* assets alone, and every commit stores the tag its scan computed, also   *)
(* when an asset with that tag has been committed meanwhile.  So two       *)
(* requests that both scan before either commits give two assets with the  *)
(* same tag.                                                               *)
(***************************************************************************)
InFlight == {r \in RequestIds : asset_requests[r] # NoRequest}

C15_ScanSeesCommittedOnly ==
    \A uid \in {u \in UserIds : require_assets_access(u)},
       a \in {x \in AssetIds : asset_id_unused(x)}, p \in AssetIn :
        LET s == create_asset_session(a, p, uid, stored_asset_tags, now)
        IN s.code = "ok" =>
              /\ s.obj.asset_tag = build_next_asset_tag(stored_asset_tags)
              /\ \A r \in InFlight :
                    asset_requests[r].obj.asset_tag = build_next_asset_tag(stored_asset_tags)
                       => s.obj.asset_tag = asset_requests[r].obj.asset_tag

C15_CommitUnguarded ==
    \A r \in InFlight :
        LET c == commit_create_asset_result(asset_requests[r], now)
        IN /\ c.code = "ok"
           /\ c.assets[asset_requests[r].asset_id] = asset_requests[r].obj
           /\ Len(c.asset_events) = Len(asset_events) + 1

\* A request that leaves the set of requests in flight has stored its row.
C15_CommitStep ==
    \A r \in InFlight :
        asset_requests'[r] = NoRequest =>
            assets'[asset_requests[r].asset_id] = asset_requests[r].obj

C15_TagRace ==
    /\ []C15_ScanSeesCommittedOnly
    /\ []C15_CommitUnguarded
    /\ [][C15_CommitStep]_vars

\* Two stored assets with one tag, each with its "created" event.
C15_Witness ==
    \E a, b \in AssetIds :
        /\ a # b
        /\ AssetExists(a)
        /\ AssetExists(b)
        /\ assets[a].asset_tag = assets[b].asset_tag
        /\ Len(AllocatedTags) = 2
        /\ InFlight = {}

(***************************************************************************)
(* C16.  The tag of an asset never changes: whatever assetTag, qrCode and  *)
(* qrClass the body of an update_asset carries, the asset has the tag it   *)
(* was given at creation in every later state.                             *)
(***************************************************************************)
\* Bodies that carry a tag, a QR code and a QR class.
TagPatchIn ==
    {[DefaultAssetIn EXCEPT !.assetTag = tag, !.qrCode = qr_code, !.qrClass = qr_class] :
        tag \in {NoTag, OtherTag},
        qr_code \in {<<>>, Upper("tdc-00-0042-c")},
        qr_class \in {<<>>, Upper("a"), Lower("b"), Padded(Upper("c")), Upper("d")}}

C16_UpdateKeepsTag ==
    \A a \in AssetIds : AssetExists(a) =>
        \A uid \in {u \in UserIds : require_assets_access(u)}, p \in AssetIn \cup TagPatchIn :
            LET r == update_asset_result(a, p, uid)
            IN /\ r.assets[a] # NoAsset
               /\ r.assets[a].asset_tag = assets[a].asset_tag
               /\ r.code = "ok" =>
                     r.assets[a].qr_code.consecutive = assets[a].asset_tag.digits

C16_TagOfCreation ==
    \A a \in AssetIds : AssetExists(a) =>
        /\ AssetJournal(asset_events, a) # <<>>
        /\ AssetJournal(asset_events, a)[1].event_type = "created"
        /\ AssetJournal(asset_events, a)[1].payload.assetTag = assets[a].asset_tag

C16_TagKeptByStep ==
    \A a \in AssetIds :
        (AssetExists(a) /\ assets'[a] # NoAsset) => assets'[a].asset_tag = assets[a].asset_tag

C16_TagImmutable ==
    /\ []C16_UpdateKeepsTag
    /\ []C16_TagOfCreation
    /\ [][C16_TagKeptByStep]_vars

\* The second asset, updated twice, the last time to QR class B: its tag is
\* the TDC-0002 of its creation.
C16_Witness ==
    \E a \in AssetIds :
        /\ AssetExists(a)
        /\ Len(AssetJournal(asset_events, a)) = 2
        /\ AssetJournal(asset_events, a)[2].event_type = "updated"
        /\ "qrCode" \in DOMAIN AssetJournal(asset_events, a)[2].payload.changes
        /\ assets[a].qr_code.qr_class = Upper("b")
        /\ assets[a].asset_tag = build_next_asset_tag({build_next_asset_tag({})})

(***************************************************************************)
(* C17.  An update_asset that is accepted appends exactly one `updated`    *)
(* event when at least one tracked field of the asset differs after the    *)
(* update, and no event when none differs; the changes of the event name   *)
(* exactly the tracked fields that differ, each with the value before and  *)
(* the value after.                                                        *)
(***************************************************************************)
\* The tracked fields whose stored values differ between two rows.
Differing(before, after) ==
    {key \in TrackedFields : tracked_fields(before)[key] # tracked_fields(after)[key]}

\* What a journal holds beyond an earlier journal.
NewEvents(before, after) == SubSeq(after, Len(before) + 1, Len(after))

IsUpdatedEvent(event, asset_id, actor_id, before, after) ==
    /\ event.asset_id = asset_id
    /\ event.actor_id = actor_id
    /\ event.event_type = "updated"
    /\ DOMAIN event.payload = {"changes"}
    /\ DOMAIN event.payload.changes = Differing(before, after)
    /\ \A key \in Differing(before, after) :
          event.payload.changes[key] =
              [before |-> tracked_fields(before)[key], after |-> tracked_fields(after)[key]]

C17_UpdatedEventIffChanged ==
    \A a \in AssetIds : AssetExists(a) =>
        \A uid \in {u \in UserIds : require_assets_access(u)}, p \in AssetIn :
            LET r == update_asset_result(a, p, uid)
                new == NewEvents(asset_events, r.asset_events)
            IN /\ IsPrefix(asset_events, r.asset_events)
               /\ r.code # "ok" => (new = <<>> /\ r.assets = assets)
               /\ r.code = "ok" =>
                     /\ Differing(assets[a], r.assets[a]) = {} <=> new = <<>>
                     /\ Differing(assets[a], r.assets[a]) # {} =>
                           /\ Len(new) = 1
                           /\ IsUpdatedEvent(new[1], a, uid, assets[a], r.assets[a])

\* The body that carries the stored values of an asset back, with the class
\* of its QR code.
EchoIn(item) ==
    [assetTag |-> item.asset_tag,
     qrCode |-> item.qr_code,
     qrClass |-> item.qr_code.qr_class,
     location |-> item.location,
     serialNumber |-> item.serial_number,
     category |-> item.category,
     manufacturer |-> item.manufacturer,
     model |-> item.model,
     supplier |-> item.supplier,
     status |-> item.status,
     user |-> item.user_name,
     condition |-> item.condition,
     notes |-> item.notes]

\* Within the year of the stored QR code, the body that carries the stored
\* values back is accepted and appends nothing.
C17_SameValuesAppendNothing ==
    \A a \in AssetIds : AssetExists(a) =>
        \A uid \in {u \in UserIds : require_assets_access(u)} :
            LET r == update_asset_result(a, EchoIn(assets[a]), uid)
            IN assets[a].qr_code.year_segment = zero_pad(decimal(year_of(now) % 100), 2) =>
                  /\ r.code = "ok"
                  /\ r.asset_events = asset_events
                  /\ tracked_fields(r.assets[a]) = tracked_fields(assets[a])

\* In a step that keeps an asset, the asset gets one `updated` event exactly
\* when a tracked field of it differs.
C17_UpdatedEventPerStep ==
    \A a \in AssetIds :
        (AssetExists(a) /\ assets'[a] # NoAsset) =>
            LET new == AssetJournal(NewEvents(asset_events, asset_events'), a)
            IN /\ IsPrefix(asset_events, asset_events')
               /\ Differing(assets[a], assets'[a]) = {} <=> new = <<>>
               /\ Differing(assets[a], assets'[a]) # {} =>
                     /\ Len(new) = 1
                     /\ new[1].event_type = "updated"
                     /\ DOMAIN new[1].payload.changes = Differing(assets[a], assets'[a])

AuditFailures == AuditOutcomes \ {"committed"}

C18_AuditFailureIsSwallowed ==
    \A admin_id \in {u \in UserIds : require_admin_access(u)},
       role_name \in RoleNameIn, module_name \in ModuleNameIn, enabled \in BOOLEAN,
       outcome \in AuditFailures :
        LET served == patch_module_access_result(role_name, module_name, enabled,
                                                  admin_id, "committed")
            failed == patch_module_access_result(role_name, module_name, enabled,
                                                  admin_id, outcome)
        IN /\ failed.code = served.code
           /\ failed.out = served.out
           /\ failed.role_module_access = served.role_module_access
           /\ failed.audit_logs = audit_logs
           /\ served.code = "ok" =>
                 /\ served.out # NoOut
                 /\ served.role_module_access[served.out.role][served.out.module]
                       = IF enabled THEN "enabled" ELSE "disabled"
                 /\ Len(served.audit_logs) = Len(audit_logs) + 1
                 /\ Last(served.audit_logs).action = "admin.module_access.update"
           /\ served.code # "ok" =>
                 /\ served.role_module_access = role_module_access
                 /\ served.audit_logs = audit_logs

\* The audit table changes by its own commit only: a step adds one row to it
\* or leaves it alone, whatever the step does to the other tables.
C18_AuditSessionOfItsOwn ==
    \/ audit_logs' = audit_logs
    \/ /\ Len(audit_logs') = Len(audit_logs) + 1
       /\ IsPrefix(audit_logs, audit_logs')

C18_AuditNeverBlocks ==
    /\ []C18_AuditFailureIsSwallowed
    /\ [][C18_AuditSessionOfItsOwn]_vars

\* The developers were given the admin module and the third account was made
\* a developer while every audit write failed: both changes are stored and the
\* audit table has no row.
C18_Witness ==
    /\ role_module_access["developer"]["admin"] = "enabled"
    /\ users["u3"] = "developer"
    /\ audit_logs = <<>>

(***************************************************************************)
(* C19.  Audit payload size caps: every string value of a payload longer   *)
(* than 500 characters is cut to its first 500 characters and an ellipsis, *)
(* and when the JSON text of the sanitized payload is longer than 4000     *)
(* characters the stored text is a {truncated, preview} wrapper that is    *)
(* itself no longer than 4000 characters, whatever the payload holds.      *)
(***************************************************************************)
Capped(text) ==
    IF len(text) > AUDIT_PAYLOAD_STR_MAX
    THEN take(text, AUDIT_PAYLOAD_STR_MAX) \o ascii("...")
    ELSE text

\* The strings of the sanitized payload are the strings of the payload, capped.
C19_StringsCapped ==
    LET changed == audit_payload.items[1].value.items
        sanitized == _sanitize_audit_payload(audit_payload, 0).items[1].value.items
    IN \A i \in 1..Len(changed) :
          /\ sanitized[i].value.items[1].value.text = Capped(changed[i].value.items[1].value.text)
          /\ sanitized[i].value.items[2].value.text = Capped(changed[i].value.items[2].value.text)

\* Every stored payload is within the cap.
C19_StoredWithinCap ==
    \A i \in 1..Len(audit_logs) : len(audit_logs[i].payload_json) <= AUDIT_PAYLOAD_JSON_MAX

C19_PayloadSizeCaps ==
    /\ audit_payload.items # <<>> => C19_StringsCapped
    /\ C19_StoredWithinCap

(***************************************************************************)
(* C20.  A patch_ticket leaves unchanged every optional field its body     *)
(* omits: without assigneeId the assignee is kept, without processNotes    *)
(* the process notes, without evidence the evidence list, and without      *)
(* resolution the stored resolution text.                                  *)
(***************************************************************************)
\* StatusPatchIn: the bodies that omit assigneeId, resolution, processNotes
\* and evidence.
C20_OmittedFieldsKept ==
    \A t \in TicketIds : Exists(t) =>
        \A uid \in {u \in UserIds : require_team_tickets_access(u)}, p \in StatusPatchIn :
            LET r == patch_ticket_result(t, p, uid)
            IN r.code = "ok" =>
                  /\ r.tickets[t].assignee_id = tickets[t].assignee_id
                  /\ r.tickets[t].process_notes = tickets[t].process_notes
                  /\ r.tickets[t].evidence = tickets[t].evidence
                  /\ r.tickets[t].resolution = tickets[t].resolution

\* What does hold: assignee, process notes and evidence are kept, and the
\* resolution becomes the empty text.
C20_OmittedResolutionCleared ==
    \A t \in TicketIds : Exists(t) =>
        \A uid \in {u \in UserIds : require_team_tickets_access(u)}, p \in StatusPatchIn :
            LET r == patch_ticket_result(t, p, uid)
            IN r.code = "ok" =>
                  /\ r.tickets[t].assignee_id = tickets[t].assignee_id
                  /\ r.tickets[t].process_notes = tickets[t].process_notes
                  /\ r.tickets[t].evidence = tickets[t].evidence
                  /\ r.tickets[t].resolution = ""

(***************************************************************************)
(* C21.  After every accepted patch_ticket the ticket's fixed_by_id is the *)
(* acting user when the resulting status is in_progress, resolved or       *)
(* closed, and null otherwise; create_ticket starts with it null and       *)
(* assign_ticket leaves it alone, so in every reachable state fixed_by_id  *)
(* is non-null iff the status is one of those three.                       *)
(***************************************************************************)
FixingStatuses == {"in_progress", "resolved", "closed"}

C21_PatchSetsFixedBy ==
    \A t \in TicketIds : Exists(t) =>
        \A uid \in {u \in UserIds : require_team_tickets_access(u)},
           p \in StatusAssigneePatchIn \cup JournalPatchIn :
            LET r == patch_ticket_result(t, p, uid)
            IN r.code = "ok" =>
                  r.tickets[t].fixed_by_id =
                      IF r.tickets[t].status \in FixingStatuses THEN uid ELSE None

C21_AssignKeepsFixedBy ==
    \A t \in TicketIds : Exists(t) =>
        \A uid \in {u \in UserIds : require_team_tickets_access(u)}, p \in TicketAssignIn :
            LET r == assign_ticket_result(t, p, uid)
            IN /\ r.tickets[t].fixed_by_id = tickets[t].fixed_by_id
               /\ r.tickets[t].status = tickets[t].status

C21_FixedByIffFixingStatus ==
    \A t \in TicketIds : Exists(t) =>
        (tickets[t].fixed_by_id # None <=> tickets[t].status \in FixingStatuses)

\* A ticket comes into being with fixed_by_id null.
C21_CreatedUnfixed ==
    \A t \in TicketIds : (~Exists(t) /\ tickets'[t] # NoTicket) => tickets'[t].fixed_by_id = None

C21_FixedBy ==
    /\ []C21_PatchSetsFixedBy
    /\ []C21_AssignKeepsFixedBy
    /\ []C21_FixedByIffFixingStatus
    /\ [][C21_CreatedUnfixed]_vars

\* A ticket that was resolved and then reopened: its fixed_by_id is null again.
C21_Witness ==
    \E t \in TicketIds :
        /\ Exists(t)
        /\ tickets[t].status = "reopened"
        /\ tickets[t].fixed_by_id = None
        /\ \E i \in 1..Len(ticket_events) :
              /\ ticket_events[i].ticket_id = t
              /\ ticket_events[i].event_type = "updated"
              /\ ticket_events[i].payload.status = "resolved"

(***************************************************************************)
(* C22.  first_responded_at is set to the current time by the first        *)
(* accepted patch that leaves the ticket in triaged or in_progress, and    *)
(* once it is set no later patch, assignment or resolve/reopen cycle       *)
(* changes it.                                                             *)
(***************************************************************************)
C22_PatchStampsFirstResponse ==
    \A t \in TicketIds : Exists(t) =>
        \A uid \in {u \in UserIds : require_team_tickets_access(u)},
           p \in StatusAssigneePatchIn :
            LET r == patch_ticket_result(t, p, uid)
            IN r.code = "ok" =>
                  r.tickets[t].first_responded_at =
                      IF tickets[t].first_responded_at # NullTime
                      THEN tickets[t].first_responded_at
                      ELSE IF r.tickets[t].status \in {"triaged", "in_progress"}
                           THEN now ELSE NullTime

C22_AssignKeepsFirstResponse ==
    \A t \in TicketIds : Exists(t) =>
        \A uid \in {u \in UserIds : require_team_tickets_access(u)}, p \in TicketAssignIn :
            assign_ticket_result(t, p, uid).tickets[t].first_responded_at
                = tickets[t].first_responded_at

\* A ticket that has been in triaged or in_progress has the stamp.
C22_RespondedOnceTriaged ==
    \A t \in TicketIds : Exists(t) =>
        /\ tickets[t].status \in {"triaged", "in_progress"} =>
              tickets[t].first_responded_at # NullTime
        /\ tickets[t].first_responded_at # NullTime => tickets[t].first_responded_at <= now

C22_FirstResponseKeptByStep ==
    \A t \in TicketIds :
        /\ (~Exists(t) /\ tickets'[t] # NoTicket) => tickets'[t].first_responded_at = NullTime
        /\ (Exists(t) /\ tickets[t].first_responded_at # NullTime /\ tickets'[t] # NoTicket) =>
              tickets'[t].first_responded_at = tickets[t].first_responded_at

C22_FirstResponseSetOnce ==
    /\ []C22_PatchStampsFirstResponse
    /\ []C22_AssignKeepsFirstResponse
    /\ []C22_RespondedOnceTriaged
    /\ [][C22_FirstResponseKeptByStep]_vars

\* A ticket answered at one instant and brought back to in_progress by a patch
\* at a later one: the stamp is the earlier instant.
C22_Witness ==
    \E t \in TicketIds :
        /\ Exists(t)
        /\ tickets[t].status = "in_progress"
        /\ tickets[t].first_responded_at # NullTime
        /\ Last(Journal(ticket_events, t)).event_type = "updated"
        /\ Last(Journal(ticket_events, t)).payload.status = "in_progress"
        /\ Last(Journal(ticket_events, t)).created_at > tickets[t].first_responded_at

(***************************************************************************)
(* C23.  Timestamps of a status change, in the commit of the change: a     *)
(* patch that moves a ticket into resolved sets resolved_at to the current *)
(* time and nulls closed_at; into closed, sets closed_at to the current    *)
(* time; into reopened, nulls both.  A ticket in status reopened has       *)
(* neither set.                                                            *)
(***************************************************************************)
C23_PatchStampsStatusChange ==
    \A t \in TicketIds : Exists(t) =>
        \A uid \in {u \in UserIds : require_team_tickets_access(u)},
           p \in StatusAssigneePatchIn :
            LET r == patch_ticket_result(t, p, uid)
                after == r.tickets[t]
            IN (r.code = "ok" /\ after.status # tickets[t].status) =>
                  /\ after.status = "resolved" =>
                        (after.resolved_at = now /\ after.closed_at = NullTime)
                  /\ after.status = "closed" =>
                        (after.closed_at = now /\ after.resolved_at = tickets[t].resolved_at)
                  /\ after.status = "reopened" =>
                        (after.resolved_at = NullTime /\ after.closed_at = NullTime)
                  /\ Len(r.ticket_events) = Len(ticket_events) + 1
                  /\ Last(r.ticket_events).payload.status = after.status

C23_ReopenedHasNoStamp ==
    \A t \in TicketIds : (Exists(t) /\ tickets[t].status = "reopened") =>
        (tickets[t].resolved_at = NullTime /\ tickets[t].closed_at = NullTime)

\* The stamps and the status change are stored by one step.
C23_StampedWithTheChange ==
    \A t \in TicketIds :
        (Exists(t) /\ tickets'[t] # NoTicket /\ tickets'[t].status # tickets[t].status) =>
            /\ tickets'[t].status = "resolved" =>
                  (tickets'[t].resolved_at = now' /\ tickets'[t].closed_at = NullTime)
            /\ tickets'[t].status = "closed" => tickets'[t].closed_at = now'
            /\ tickets'[t].status = "reopened" =>
                  (tickets'[t].resolved_at = NullTime /\ tickets'[t].closed_at = NullTime)

C23_StatusChangeTimestamps ==
    /\ []C23_PatchStampsStatusChange
    /\ []C23_ReopenedHasNoStamp
    /\ [][C23_StampedWithTheChange]_vars

\* A ticket resolved at a later instant than its creation and then reopened:
\* resolved_at is null again.
C23_Witness ==
    \E t \in TicketIds :
        /\ Exists(t)
        /\ tickets[t].status = "reopened"
        /\ tickets[t].resolved_at = NullTime
        /\ tickets[t].closed_at = NullTime
        /\ Len(Journal(ticket_events, t)) = 3
        /\ Journal(ticket_events, t)[2].payload.status = "resolved"
        /\ Journal(ticket_events, t)[2].created_at > tickets[t].created_at

(***************************************************************************)
(* C24: build_next_asset_tag returns the tag after the highest stored      *)
(* number.                                                                 *)
(***************************************************************************)
\* The pattern of the claim, read off the tag: the prefix TDC- in either
\* case and four digits or more.
C24_MatchingNumbers(tags) ==
    {int(tag.digits) : tag \in {x \in tags : x.prefix \in {"TDC-", "tdc-", "Tdc-"}
                                              /\ Len(x.digits) >= 4}}

\* m is the highest number of the matching tags, 0 when none matches.
C24_IsHighest(m, tags) ==
    IF C24_MatchingNumbers(tags) = {} THEN m = 0
    ELSE m \in C24_MatchingNumbers(tags) /\ \A n \in C24_MatchingNumbers(tags) : n <= m

\* The tag is TDC- and the number m + 1 padded with zeros to four digits.
C24_IsTagAfter(tag, m) ==
    /\ tag.prefix = "TDC-"
    /\ int(tag.digits) = m + 1
    /\ Len(tag.digits) >= 4
    /\ Len(tag.digits) > 4 => tag.digits[1] # 0

C24_NextTagOf(tags) ==
    \E m \in C24_MatchingNumbers(tags) \cup {0} :
        C24_IsHighest(m, tags) /\ C24_IsTagAfter(build_next_asset_tag(tags), m)

\* In every state the tag the generator returns for the stored tags is the
\* one after the highest matching number.
C24_NextTagOfStored == C24_NextTagOf(stored_asset_tags)

\* The same for every set of the sample tags.
C24_NextTagOfSamples == \A tags \in SUBSET TagSamples : C24_NextTagOf(tags)

\* Tags that do not match change nothing.
C24_OthersIgnored ==
    build_next_asset_tag(stored_asset_tags)
        = build_next_asset_tag({tag \in stored_asset_tags : tag_matches(tag)})

C24_Examples ==
    /\ build_next_asset_tag({[prefix |-> "TDC-", digits |-> <<0, 0, 0, 1>>],
                             [prefix |-> "TDC-", digits |-> <<0, 0, 0, 7>>]})
          = [prefix |-> "TDC-", digits |-> <<0, 0, 0, 8>>]
    /\ build_next_asset_tag({}) = [prefix |-> "TDC-", digits |-> <<0, 0, 0, 1>>]

\* A created asset holds the tag after the highest number stored before it.
C24_CreatedWithNextTag ==
    \A a \in AssetIds :
        (~AssetExists(a) /\ assets'[a] # NoAsset) =>
            \E m \in C24_MatchingNumbers(stored_asset_tags) \cup {0} :
                /\ C24_IsHighest(m, stored_asset_tags)
                /\ C24_IsTagAfter(assets'[a].asset_tag, m)

\* C24: build_next_asset_tag returns TDC-<m+1>, the number padded with zeros
\* to four digits, where m is the highest number over the stored tags that
\* match TDC-(\d{4,}) and 0 when none matches; other tags are ignored; the
\* tags TDC-0001 and TDC-0007 give TDC-0008 and no tag gives TDC-0001.
C24_NextAssetTag ==
    /\ [](C24_NextTagOfStored /\ C24_NextTagOfSamples /\ C24_OthersIgnored /\ C24_Examples)
    /\ [][C24_CreatedWithNextTag]_vars

\* TDC-0007 was stored, and the asset created next holds TDC-0008.
C24_Witness ==
    /\ AssetExists("a1") /\ AssetExists("a2")
    /\ assets["a1"].asset_tag = [prefix |-> "TDC-", digits |-> <<0, 0, 0, 7>>]
    /\ assets["a2"].asset_tag = [prefix |-> "TDC-", digits |-> <<0, 0, 0, 8>>]
    /\ Len(AssetJournal(asset_events, "a2")) = 1
    /\ AssetJournal(asset_events, "a2")[1].event_type = "created"

(***************************************************************************)
(* C25: the stored QR code is derived from the tag, the class and the      *)
(* year.                                                                   *)
(***************************************************************************)
\* The classes a request can carry, with the class the claim expects: "none"
\* where the request is to be rejected.
C25_Classes ==
    { <<Upper("a"), Upper("a")>>,
      <<Lower("b"), Upper("b")>>,
      <<Padded(Lower("c")), Upper("c")>>,
      <<Padded(Upper("b")), Upper("b")>>,
      << <<>>, Upper("a")>>,
      <<Upper("d"), "none">>,
      <<Lower("ab"), "none">>,
      << <<Space>>, "none">> }

\* Bodies with each class, without a qrCode and with the qrCode TDC-00-0000-C.
C25_In(qr_class) ==
    {[DefaultAssetIn EXCEPT !.qrClass = qr_class, !.qrCode = code] :
        code \in {<<>>, [prefix |-> "TDC-", year_segment |-> <<0, 0>>,
                         consecutive |-> <<0, 0, 0, 0>>, qr_class |-> Upper("c")]}}

\* TDC-<two digits of the year>-<number of the tag, four digits>-<class>.
C25_IsQrOf(qr_code, tag, class, clock) ==
    /\ qr_code.prefix = "TDC-"
    /\ Len(qr_code.year_segment) = 2
    /\ int(qr_code.year_segment) = year_of(clock) % 100
    /\ int(qr_code.consecutive) = int(tag.digits)
    /\ Len(qr_code.consecutive) >= 4
    /\ Len(qr_code.consecutive) > 4 => qr_code.consecutive[1] # 0
    /\ qr_code.qr_class = class

\* create_asset with each class, from the state reached.
C25_CreateStoresDerivedQr ==
    \A a \in AssetIds, c \in C25_Classes : \A payload \in C25_In(c[1]) :
        asset_id_unused(a) =>
            LET r == create_asset_result(a, payload, "u1")
            IN IF c[2] = "none"
               THEN /\ r.code = "invalid_qr_class"
                    /\ r.assets = assets
                    /\ r.asset_events = asset_events
               ELSE /\ r.code = "ok"
                    /\ C25_IsQrOf(r.assets[a].qr_code, r.assets[a].asset_tag, c[2], now)
                    /\ r = create_asset_result(a, [payload EXCEPT !.qrCode = <<>>], "u1")

\* update_asset with each class, from the state reached.
C25_UpdateStoresDerivedQr ==
    \A a \in AssetIds, c \in C25_Classes : \A payload \in C25_In(c[1]) :
        AssetExists(a) =>
            LET r == update_asset_result(a, payload, "u1")
            IN IF c[2] = "none"
               THEN /\ r.code = "invalid_qr_class"
                    /\ r.assets = assets
                    /\ r.asset_events = asset_events
               ELSE /\ r.code = "ok"
                    /\ C25_IsQrOf(r.assets[a].qr_code, assets[a].asset_tag, c[2], now)
                    /\ r = update_asset_result(a, [payload EXCEPT !.qrCode = <<>>], "u1")

\* The code is a function of the tag, the class and the year of the clock.
C25_SameYearSameCode ==
    \A a \in AssetIds, class \in {Upper("a"), Upper("b"), Upper("c")},
       c1 \in YearInstants \cup {Hour}, c2 \in YearInstants \cup {Hour} :
        (AssetExists(a) /\ year_of(c1) = year_of(c2)) =>
            build_qr_code_from_asset_tag(assets[a].asset_tag, class, c1)
                = build_qr_code_from_asset_tag(assets[a].asset_tag, class, c2)

\* Every row a step writes holds the code of its tag, of one of the three
\* classes and of the year of the step.
C25_WrittenWithDerivedQr ==
    \A a \in AssetIds :
        (assets'[a] # NoAsset /\ assets'[a] # assets[a]) =>
            \E class \in {Upper("a"), Upper("b"), Upper("c")} :
                C25_IsQrOf(assets'[a].qr_code, assets'[a].asset_tag, class, now)

\* C25: after every accepted create_asset and update_asset the stored QR code
\* is TDC-<two digits of the current year>-<number of the tag, four
\* digits>-<class>, the class being the request's qrClass normalised to A, B
\* or C (A by default); the qrCode of the request is never stored; the same
\* tag, class and year give the same code; a qrClass outside A, B, C is
\* rejected and changes nothing.
C25_QrCodeDerived ==
    /\ [](C25_CreateStoresDerivedQr /\ C25_UpdateStoresDerivedQr /\ C25_SameYearSameCode)
    /\ [][C25_WrittenWithDerivedQr]_vars

\* An asset created in one year with class A was updated in the next year
\* with class b: its code carries the new year and class B.
C25_Witness ==
    \E a \in AssetIds :
        /\ AssetExists(a)
        /\ assets[a].qr_code.year_segment = <<0, 0>>
        /\ assets[a].qr_code.qr_class = Upper("b")
        /\ Len(AssetJournal(asset_events, a)) = 2
        /\ AssetJournal(asset_events, a)[2].event_type = "updated"
        /\ AssetJournal(asset_events, a)[2].payload.changes["qrCode"].before.qr_class = Upper("a")

(***************************************************************************)
(* C26: create_maintenance_record appends at most one event, to the asset  *)
(* of the QR code before the asset of the serial number.                   *)
(***************************************************************************)
\* The events a result appends to the stored ones.
C26_Appended(r) == SubSeq(r.asset_events, Len(asset_events) + 1, Len(r.asset_events))

\* The stored assets of a QR code, and of a serial number.
C26_OfQr(qr) == {a \in AssetIds : AssetExists(a) /\ assets[a].qr_code = qr}
C26_OfSerial(sn) == {a \in AssetIds : AssetExists(a) /\ assets[a].serial_number = sn}

\* Every accepted body, from the state reached: the record is stored with its
\* upper-cased texts, with one maintenance_recorded event of an asset of its QR
\* code, or else of an asset of its serial number, or else with no event.
C26_RecordAndItsEvent ==
    \A payload \in MaintenanceRecordIn :
        \A r \in create_maintenance_record_results("m1", payload, "u2") :
            LET record == Last(r.maintenance_records)
                events == C26_Appended(r)
            IN r.code = "ok" =>
                /\ r.maintenance_records = Append(maintenance_records, record)
                /\ record.qr = upper_qr(payload.qr)
                /\ record.serial_number = upper(payload.serialNumber)
                /\ IsPrefix(asset_events, r.asset_events)
                /\ Len(events) <= 1
                /\ \A i \in 1..Len(events) :
                      /\ events[i].event_type = "maintenance_recorded"
                      /\ events[i].payload.maintenanceRecordId = record.id
                /\ IF C26_OfQr(record.qr) # {}
                   THEN Len(events) = 1 /\ events[1].asset_id \in C26_OfQr(record.qr)
                   ELSE IF C26_OfSerial(record.serial_number) # {}
                   THEN Len(events) = 1
                        /\ events[1].asset_id \in C26_OfSerial(record.serial_number)
                   ELSE events = <<>>

\* A body is refused for its type or its date only, and then nothing is
\* stored: a body that matches no asset is accepted.
C26_NoMatchIsNoError ==
    \A payload \in MaintenanceRecordIn :
        \A r \in create_maintenance_record_results("m1", payload, "u2") :
            /\ r.code = "ok" <=>
                  /\ payload.maintenanceType \in {Upper("p"), Upper("c"), Lower("p"), Lower("c")}
                  /\ payload.maintenanceDate.format = "%Y-%m-%d"
            /\ r.code # "ok" =>
                  /\ r.maintenance_records = maintenance_records
                  /\ r.asset_events = asset_events

\* A maintenance_recorded event is stored by the step that stores its record,
\* and no step stores two.
C26_EventWithItsRecord ==
    LET events == SubSeq(asset_events', Len(asset_events) + 1, Len(asset_events'))
        recorded == {i \in 1..Len(events) : events[i].event_type = "maintenance_recorded"}
    IN /\ Cardinality(recorded) <= 1
       /\ recorded # {} =>
             /\ Len(maintenance_records') = Len(maintenance_records) + 1
             /\ \A i \in recorded :
                   events[i].payload.maintenanceRecordId = Last(maintenance_records').id

\* C26: create_maintenance_record appends at most one maintenance_recorded
\* event, in the commit of the record: to the asset whose QR code is the
\* record's upper-cased qr if there is one, otherwise to an asset whose serial
\* number is the record's upper-cased serial number if there is one; an asset
\* of the QR code goes before another asset of the serial number; with no
\* asset matching, the record is stored with no event and no error.
C26_MaintenanceEvent ==
    /\ [](C26_RecordAndItsEvent /\ C26_NoMatchIsNoError)
    /\ [][C26_EventWithItsRecord]_vars

\* Two assets are stored, the second with the serial number SN2; a record of
\* the first asset's QR code and of the serial number SN2 is stored with its
\* event on the first asset, and a record of no asset is stored with none.
C26_Witness ==
    /\ AssetExists("a1") /\ AssetExists("a2")
    /\ assets["a2"].serial_number = Upper("sn2")
    /\ Len(maintenance_records) = 2
    /\ maintenance_records[1].qr = assets["a1"].qr_code
    /\ maintenance_records[1].serial_number = Upper("sn2")
    /\ maintenance_records[2].qr = NoQr
    /\ maintenance_records[2].serial_number = <<>>
    /\ assets["a1"].serial_number # <<>>
    /\ Len(AssetJournal(asset_events, "a1")) = 2
    /\ AssetJournal(asset_events, "a1")[2].event_type = "maintenance_recorded"
    /\ AssetJournal(asset_events, "a1")[2].payload.maintenanceRecordId = maintenance_records[1].id
    /\ Len(AssetJournal(asset_events, "a2")) = 1

(***************************************************************************)
(* C27: cleanup_audit_logs deletes the expired rows in batches and is      *)
(* audited once.                                                           *)
(***************************************************************************)
C27_InPhase(phase) == cleanup_request # NoRequest /\ cleanup_request.phase = phase

\* The rows of the table.
C27_Rows(archive, logs) == sum(archive, DOMAIN archive) + Len(logs)

\* The instants at which a row of either table expires.
C27_Instants ==
    DOMAIN audit_archive \cup {audit_logs[i].retention_until : i \in 1..Len(audit_logs)}

\* A step of the loop.
C27_IsBatch == C27_InPhase("loop") /\ cleanup_request'.batches = cleanup_request.batches + 1

\* A batch deletes at most 1000 rows, all of them expired when it runs, and
\* counts them; the loop goes on iff the batch deleted 1000 rows, and when it
\* stops no row that has expired is left.
C27_BatchDeletesExpired ==
    C27_IsBatch =>
        LET deleted == cleanup_request'.deleted
        IN /\ deleted <= 1000
           /\ deleted = C27_Rows(audit_archive, audit_logs) - C27_Rows(audit_archive', audit_logs')
           /\ cleanup_request'.total_deleted = cleanup_request.total_deleted + deleted
           /\ \A t \in C27_Instants :
                 /\ rows_at(audit_archive', audit_logs', t) <= rows_at(audit_archive, audit_logs, t)
                 /\ t >= now =>
                       rows_at(audit_archive', audit_logs', t)
                           = rows_at(audit_archive, audit_logs, t)
           /\ \A i \in 1..Len(audit_logs) :
                 audit_logs[i].retention_until >= now =>
                     \E j \in 1..Len(audit_logs') : audit_logs'[j] = audit_logs[i]
           /\ cleanup_request'.phase = (IF deleted < 1000 THEN "audit" ELSE "loop")
           /\ deleted < 1000 =>
                 \A t \in C27_Instants : t < now => rows_at(audit_archive', audit_logs', t) = 0

\* Rows are deleted by the batches only, and the count starts from 0.
C27_CountStartsAtZero ==
    /\ (~C27_InPhase("loop") /\ cleanup_request' # cleanup_request) =>
          (cleanup_request'.phase = "loop" => cleanup_request'.total_deleted = 0)
    /\ ~C27_IsBatch =>
          /\ audit_archive' = audit_archive
          /\ IsPrefix(audit_logs, audit_logs')

\* The step that returns.
C27_IsReturn == C27_InPhase("audit") /\ cleanup_request'.phase = "returned"

\* The row of the cleanup, with the count of the run.
C27_IsCleanupRow(row, request) ==
    /\ row.action = "admin.audit.cleanup"
    /\ row.actor_user_id = request.current_admin_id
    /\ row.payload_json = json_dumps(Dict(<<Item(ascii("deleted"), Number(request.total_deleted))>>))

\* The return keeps the count and deletes nothing; it appends the row of the
\* cleanup, or nothing when the audit session fails.
C27_ReturnWritesAtMostOneRow ==
    C27_IsReturn =>
        /\ cleanup_request'.total_deleted = cleanup_request.total_deleted
        /\ audit_archive' = audit_archive
        /\ \/ audit_logs' = audit_logs
           \/ /\ Len(audit_logs') = Len(audit_logs) + 1
              /\ IsPrefix(audit_logs, audit_logs')
              /\ C27_IsCleanupRow(Last(audit_logs'), cleanup_request)

\* With the audit session committing, the row is written.
C27_CommittedRowIsWritten ==
    C27_InPhase("audit") =>
        LET logs == write_audit_log(cleanup_request.current_admin_id, "admin.audit.cleanup",
                                    "audit_log", "None", "success",
                                    Dict(<<Item(ascii("deleted"),
                                                Number(cleanup_request.total_deleted))>>),
                                    "committed").audit_logs
        IN /\ Len(logs) = Len(audit_logs) + 1
           /\ C27_IsCleanupRow(Last(logs), cleanup_request)

\* After the loop no row that had expired when the last batch ran is stored.
C27_NoExpiredRowLeft ==
    (C27_InPhase("audit") \/ C27_InPhase("returned")) =>
        \A t \in C27_Instants :
            t < cleanup_request.read_at => rows_at(audit_archive, audit_logs, t) = 0

C27_Terminates == C27_InPhase("loop") ~> C27_InPhase("returned")

\* The tables before and after each step of a run.
C27_Safe ==
    /\ [](C27_NoExpiredRowLeft /\ C27_CommittedRowIsWritten)
    /\ [][C27_BatchDeletesExpired /\ C27_CountStartsAtZero /\ C27_ReturnWritesAtMostOneRow]_vars

C28_Matching ==
    {row \in {audit_logs[i] : i \in 1..Len(audit_logs)} :
        audit_listing.action = "None" \/ row.action = audit_listing.action}

\* a comes before b in descending (createdAt, id) order.
C28_Before(a, b) ==
    \/ a.created_at > b.created_at
    \/ a.created_at = b.created_at /\ a.id > b.id

\* The limit of the listing, held to 1..200.
C28_Limit ==
    IF audit_listing.limit < 1 THEN 1
    ELSE IF audit_listing.limit > 200 THEN 200 ELSE audit_listing.limit

\* The rows read so far are matching rows in descending order, none twice,
\* and every matching row not read yet comes after the last row read;
\* nextCursor is null iff every matching row has been read.
C28_PagesInOrderAndComplete ==
    audit_listing # NoRequest =>
        LET items == audit_listing.items
            read == {items[i] : i \in 1..Len(items)}
        IN /\ read \subseteq C28_Matching
           /\ \A i, j \in 1..Len(items) : i < j => C28_Before(items[i], items[j])
           /\ \A row \in C28_Matching \ read :
                 \A i \in 1..Len(items) : C28_Before(items[i], row)
           /\ (audit_listing.nextCursor = NoCursor) <=> (read = C28_Matching)
           /\ Len(items) =
                 (IF audit_listing.pages * C28_Limit < Cardinality(C28_Matching)
                  THEN audit_listing.pages * C28_Limit
                  ELSE Cardinality(C28_Matching))

\* A request with the nextCursor of a page is accepted: the cursor is read
\* back as the instant and the id it was written from.
C28_CursorReadBack ==
    \A i \in 1..Len(audit_logs) :
        decode_audit_cursor(encode_audit_cursor(audit_logs[i].created_at, audit_logs[i].id))
            = [code |-> "ok", created_at |-> audit_logs[i].created_at,
               item_id |-> audit_logs[i].id]

\* C28: with the rows and the filter fixed, the pages read one after the
\* other with each nextCursor, for every limit, hold every matching row once
\* in descending (createdAt, id) order, also where rows share a createdAt;
\* nextCursor is null iff no matching row remains after the page.
C28_CursorPagination == C28_PagesInOrderAndComplete /\ C28_CursorReadBack

\* Four rows of one instant have been read in four pages of one row.
C28_Witness ==
    /\ audit_listing # NoRequest
    /\ audit_listing.limit = 1
    /\ audit_listing.pages = 4
    /\ audit_listing.nextCursor = NoCursor
    /\ \A i \in 1..4 : audit_logs[i].created_at = Hour
    /\ [i \in 1..4 |-> audit_listing.items[i].id] = <<4, 3, 2, 1>>

(***************************************************************************)
(* C29: the admin role keeps the admin module, and every other flag is the *)
(* last one accepted.                                                      *)
(***************************************************************************)
\* The role and the module a request names, where it names any.
C29_Pairs ==
    {<<Lower("admin"), "admin">>, <<Padded(Upper("developer")), "developer">>,
     <<Mixed("user"), "user">>, <<Lower("owner"), "none">>,
     <<Padded(Upper("assets")), "assets">>, <<Lower("billing"), "none">>}

C29_Named(name) == (CHOOSE pair \in C29_Pairs : pair[1] = name)[2]

\* The admin role is reported with the admin module, and a pair no patch was
\* accepted for with its built-in default.
C29_AdminKeepsAdmin ==
    /\ get_role_module_access_map("admin")["admin"] = TRUE
    /\ \A role \in UserRole, module \in MODULE_NAMES :
          role_module_access[role][module] = Unset =>
              get_role_module_access_map(role)[module]
                  = DEFAULT_ROLE_MODULE_ACCESS[role][module]

\* A request to disable (admin, admin) is refused, from every state.
C29_DisableAdminRefused ==
    \A role_name \in {Lower("admin"), Padded(Upper("admin"))},
       module_name \in {Lower("admin"), Mixed("admin")}, outcome \in AuditOutcomes :
        LET r == patch_module_access_result(role_name, module_name, FALSE, "u1", outcome)
        IN /\ r.code \notin {"ok", "server_error"}
           /\ r.role_module_access = role_module_access
           /\ r.audit_logs = audit_logs

\* The step of a request: accepted, it sets the flag reported for its pair
\* and no other; refused, it leaves every row as it is.
C29_PatchSetsItsPair ==
    \A role_name \in RoleNameIn, module_name \in ModuleNameIn, enabled \in BOOLEAN,
       admin_id \in UserIds, outcome \in AuditDown :
        patch_module_access(role_name, module_name, enabled, admin_id, outcome) =>
            LET r == patch_module_access_result(role_name, module_name, enabled,
                                                admin_id, outcome)
                named_role == C29_Named(role_name)
                named_module == C29_Named(module_name)
            IN /\ (r.code = "ok") <=>
                     /\ named_role # "none"
                     /\ named_module # "none"
                     /\ ~(named_role = "admin" /\ named_module = "admin" /\ ~enabled)
               /\ r.code # "ok" => role_module_access' = role_module_access
               /\ r.code = "ok" =>
                     /\ get_role_module_access_map(named_role)'[named_module] = enabled
                     /\ \A role \in UserRole, module \in MODULE_NAMES :
                           <<role, module>> # <<named_role, named_module>> =>
                               /\ role_module_access'[role][module]
                                     = role_module_access[role][module]
                               /\ get_role_module_access_map(role)'[module]
                                     = get_role_module_access_map(role)[module]

\* C29: after any sequence of patch_module_access calls the admin role is
\* reported with admin = true; a request to disable (admin, admin) is
\* rejected and no row changes; for every other pair the flag reported is that
\* of the last accepted patch of the pair, or the built-in default if there
\* was none.
C29_AdminModuleKept ==
    /\ [](C29_AdminKeepsAdmin /\ C29_DisableAdminRefused)
    /\ [][C29_PatchSetsItsPair]_vars

\* The developers were given the admin module and lost the assets module, the
\* admin role lost the assets module, and the admin role has the admin
\* module.
C29_Witness ==
    /\ role_module_access["developer"]["admin"] = "enabled"
    /\ role_module_access["developer"]["assets"] = "disabled"
    /\ role_module_access["admin"]["assets"] = "disabled"
    /\ role_module_access["admin"]["admin"] = "enabled"
    /\ get_role_module_access_map("developer")["admin"]
    /\ ~get_role_module_access_map("developer")["assets"]
    /\ get_role_module_access_map("admin")["admin"]

(***************************************************************************)
(* C30: the stamps of a ticket follow its status.                          *)
(***************************************************************************)
\* resolved_at is set iff the status is resolved or closed, and closed_at
\* iff it is closed.
C30_StampsFollowStatus(ticket) ==
    /\ (ticket.resolved_at # NullTime) <=> (ticket.status \in TICKET_RESOLUTION_STATUSES)
    /\ (ticket.closed_at # NullTime) <=> (ticket.status = "closed")

C30_StoredTickets ==
    \A t \in TicketIds : Exists(t) => C30_StampsFollowStatus(tickets[t])

\* Every patch and every assignment accepted in the state stores a ticket
\* whose stamps follow its status.
C30_AcceptedRequests ==
    \A t \in TicketIds : Exists(t) =>
        \A uid \in UserIds :
            /\ \A p \in StatusAssigneePatchIn :
                  LET r == patch_ticket_result(t, p, uid)
                  IN r.code = "ok" => C30_StampsFollowStatus(r.tickets[t])
            /\ \A a \in UserIds :
                  LET r == assign_ticket_result(t, [assigneeId |-> a], uid)
                  IN r.code = "ok" => C30_StampsFollowStatus(r.tickets[t])

\* C30: in every reachable state of a ticket created by create_ticket, after
\* any sequence of accepted patches and assignments, resolved_at is non-null
\* iff the status is resolved or closed and closed_at is non-null iff the
\* status is closed.
C30_TimestampsMatchStatus == C30_StoredTickets /\ C30_AcceptedRequests

\* A ticket that was resolved and then closed carries both stamps.
C30_Witness ==
    \E t \in TicketIds :
        /\ Exists(t)
        /\ tickets[t].status = "closed"
        /\ tickets[t].resolved_at # NullTime
        /\ tickets[t].closed_at # NullTime
        /\ Len(Journal(ticket_events, t)) = 3
        /\ Journal(ticket_events, t)[2].payload.status = "resolved"

====
